---- MODULE Spec2Model ----
(***************************************************************************)
(* VisualMem ingest engine: the FFmpeg chunk writer, the frame-difference  *)
(* detector, the recording coordinator's tick, the relational store and    *)
(* the vector store, modelled from the Python sources.                      *)
(*                                                                         *)
(* Conventions.  Python None is NoProc / NoPath / None (see below).  fps   *)
(* is a float in the source; here it is an integer number of TENTHS of a   *)
(* frame per second (fps 1.0 is 10), so that int(fps * chunk_duration) is  *)
(* (fps * chunk_duration) \div 10.  Diff scores and thresholds are integer *)
(* thousandths.  Images are small integers; the 64x64 MD5 fingerprint is   *)
(* a function of the image that is not injective.                          *)
(***************************************************************************)
EXTENDS Integers, Sequences, FiniteSets, TLC

VARIABLES
    now,        \* wall clock, whole seconds (datetime.now() at 1 s resolution)
    procs,      \* every FFmpeg child ever spawned: <<[path, piped, open]>>
    w,          \* one VideoChunkWriter (writer specification)
    wargs,      \* the constructor arguments fps / chunk_duration it was built with
    wlog,       \* history of write_frame / close calls on w, in call order
    det,        \* one FrameDiffDetector (detector specification)
    simple,     \* main.py's SimpleFrameFilter
    seen,       \* streams on which a frame has ever been submitted
    dlast,      \* per stream kind, the latest decision taken
    nchecks,    \* decisions taken so far
    lance,      \* the LanceDBStorage frames table
    written,    \* frame_ids some store_frame / store_frames_batch call stored
    lcalls,     \* store calls made so far
    config,     \* the coordinator's RecordingConfig and surroundings
    vm,         \* its VideoChunkManager
    db,         \* the SQLiteStorage
    stats,      \* its RecordingStats
    generated,  \* how many frame / sub-frame ids have been generated
    hist,       \* history of the session (see RecordingCoordinator below)
    is_running, \* self._is_running
    iteration,  \* ticks of run_continuous so far
    faulted,    \* a failure has been met in this session
    USE_OCR,    \* main.py: an OCR engine was created
    ocr_queue,  \* main.py's queue.Queue: its items and its unfinished_tasks
    ocr_thread_running, \* the Event the OCR worker loops on
    worker,     \* where the OCR worker thread is
    main,       \* where main_loop is
    at_stop,    \* the frame_ids queued when the Event was cleared
    enq,        \* the latest enqueue_ocr_task call
    run,        \* where run_continuous is, in the stop specification
    held,       \* the writer a tick got from get_screen_writer and has yet to write to
    stopper,    \* stop() calls of another thread, and ticks begun after one
    rw,         \* what rewrite_and_time was given and what it returned
    plan,       \* one hybrid query of _vector_rag: its two branches and the merge
    frame_cache, \* query.py's FrameCache
    storage,    \* the SimpleStorage metadata, oldest frame first
    updated,    \* update() calls so far, and the frames stored at the latest one
    calls,      \* threads calling write_screen_frame / close on one stream
    repl        \* cli_main's _record_thread and the recording threads it started

shared == <<now, procs>>
wvars == <<w, wargs, wlog>>
dvars == <<det, simple, seen, dlast, nchecks>>
lvars == <<lance, written, lcalls>>
rvars == <<config, vm, db, stats, generated, hist, is_running, iteration, faulted>>
ivars == <<USE_OCR, ocr_queue, ocr_thread_running, worker, main, at_stop, enq>>
svars == <<run, held, stopper>>
qvars == <<rw, plan>>
cvars == <<frame_cache, storage, updated>>
kvars == <<calls, repl>>
xvars == <<ivars, svars, qvars, cvars, kvars>>
vars == <<now, procs, w, wargs, wlog, det, simple, seen, dlast, nchecks,
          lance, written, lcalls,
          config, vm, db, stats, generated, hist, is_running, iteration, faulted,
          USE_OCR, ocr_queue, ocr_thread_running, worker, main, at_stop, enq,
          run, held, stopper, rw, plan, frame_cache, storage, updated,
          calls, repl>>

----------------------------------------------------------------------------
(* Bounds of the model *)
MaxWrites == 4      \* write_frame / close calls on the single writer
MaxClock == 1       \* seconds the wall clock may advance
MaxDuration == 3    \* largest chunk_duration drawn
MaxChecks == 4      \* decisions asked of the detector and the simple filter
MaxStores == 3      \* store calls on the vector store
MaxTicks == 2       \* ticks of one recording session
MaxOcrRows == 2     \* ocr_text rows written through direct store calls
MaxChunkRows == 1   \* video_chunks rows written through direct store calls

(* Program constants, in tenths of a frame per second *)
DEFAULT_FPS == 10
MAX_FPS == 300

None == -1          \* a failed write returns None
NoProc == 0         \* ffmpeg_process is None
NoPath == <<>>      \* current_chunk_path is None
NoImage == 0        \* previous_image / last_frame_image is None

Min(a, b) == IF a <= b THEN a ELSE b

FpsArgs == {0, 5, 10, 15, 20, 310}
DurationArgs == 1..MaxDuration
WriteOutcomes == {"ok", "spawn_fail", "broken_pipe", "error"}

----------------------------------------------------------------------------
(* VideoChunkWriter *)

\* self.fps = min(fps if fps > 0 else DEFAULT_FPS, MAX_FPS)
ClampFps(fps) == Min(IF fps > 0 THEN fps ELSE DEFAULT_FPS, MAX_FPS)

\* self.frames_per_chunk = int(self.fps * self.chunk_duration)
FramesPerChunk(fps, dur) == (ClampFps(fps) * dur) \div 10

VideoChunkWriter(ctype, ident, fps, dur, ffmpeg) ==
    [chunk_type |-> ctype,
     identifier |-> ident,
     fps |-> ClampFps(fps),
     chunk_duration |-> dur,
     ffmpeg_process |-> NoProc,
     current_chunk_path |-> NoPath,
     frame_count |-> 0,
     frames_per_chunk |-> FramesPerChunk(fps, dur),
     ffmpeg_path |-> ffmpeg]

\* safe_id: "/", ":" and " " of the identifier become "_", so the separator
\* "::" of a window key becomes two of them; "monitor_n" has none of the three
SafeId(chunk_type, identifier) ==
    IF chunk_type = "screen" THEN identifier
    ELSE [i \in DOMAIN identifier |->
            IF identifier[i] = "::" THEN "__"
            ELSE IF identifier[i] \in {"/", ":", " "} THEN "_"
            ELSE identifier[i]]

\* f"{chunk_type}_{safe_id}_{timestamp}.mp4" with a timestamp of whole seconds
GenerateChunkFilename(wr, t) == <<wr.chunk_type, SafeId(wr.chunk_type, wr.identifier), t>>

\* a start that would carry frame_count over to the new process (line 161 left out)
StartKeepsCount(wr, ps, t, spawn_ok) ==
    IF ~wr.ffmpeg_path
    THEN [w |-> wr, procs |-> ps, ok |-> FALSE]
    ELSE LET path == GenerateChunkFilename(wr, t)
             w1 == [wr EXCEPT !.current_chunk_path = path]
         IN  IF ~spawn_ok
             THEN [w |-> [w1 EXCEPT !.ffmpeg_process = NoProc],
                   procs |-> ps, ok |-> FALSE]
             ELSE [w |-> [w1 EXCEPT !.ffmpeg_process = Len(ps) + 1],
                   procs |-> Append(ps, [path |-> path, piped |-> 0, open |-> TRUE]),
                   ok |-> TRUE]

\* _start_ffmpeg_process, up to the callback (the caller runs on_chunk_created
\* when ok): False without FFmpeg; the path is set before Popen; Popen raising
\* leaves no process; a spawned process starts with frame_count 0.
StartFfmpegProcess(wr, ps, t, spawn_ok) ==
    IF ~wr.ffmpeg_path
    THEN [w |-> wr, procs |-> ps, ok |-> FALSE]
    ELSE LET path == GenerateChunkFilename(wr, t)
             w1 == [wr EXCEPT !.current_chunk_path = path]
         IN  IF ~spawn_ok
             THEN [w |-> [w1 EXCEPT !.ffmpeg_process = NoProc],
                   procs |-> ps, ok |-> FALSE]
             ELSE [w |-> [w1 EXCEPT !.ffmpeg_process = Len(ps) + 1,
                                    !.frame_count = 0],
                   procs |-> Append(ps, [path |-> path, piped |-> 0, open |-> TRUE]),
                   ok |-> TRUE]

\* _finish_ffmpeg_process: stdin closed, process waited for or killed, handle dropped
FinishFfmpegProcess(wr, ps) ==
    IF wr.ffmpeg_process = NoProc
    THEN [w |-> wr, procs |-> ps]
    ELSE [w |-> [wr EXCEPT !.ffmpeg_process = NoProc],
          procs |-> [ps EXCEPT ![wr.ffmpeg_process].open = FALSE]]

\* the test with > in place of >=
NeedsNewChunkStrict(wr) ==
    wr.ffmpeg_process = NoProc \/ wr.frame_count > wr.frames_per_chunk

\* write_frame's test: no process, or the chunk's frame budget is used up
NeedsNewChunk(wr) ==
    wr.ffmpeg_process = NoProc \/ wr.frame_count >= wr.frames_per_chunk

\* write_frame under the writer's lock.  out is what the environment does to
\* this call: "spawn_fail" Popen raises, "broken_pipe" the pipe write raises
\* BrokenPipeError, "error" encoding or writing raises anything else.
\* Result: the writer, the processes, offset (None when the call failed),
\* opened (the call went to open a new chunk), created (a process was spawned,
\* so on_chunk_created ran with w.current_chunk_path).
WriteFrame(wr, ps, t, out) ==
    LET need == NeedsNewChunk(wr)
        fin == IF need THEN FinishFfmpegProcess(wr, ps) ELSE [w |-> wr, procs |-> ps]
        st == IF need
              THEN StartFfmpegProcess(fin.w, fin.procs, t, out # "spawn_fail")
              ELSE [w |-> wr, procs |-> ps, ok |-> TRUE]
        p == st.w.ffmpeg_process
    IN  IF ~st.ok
        THEN [w |-> st.w, procs |-> st.procs, offset |-> None,
              opened |-> need, created |-> FALSE]
        ELSE IF out = "broken_pipe"
        THEN LET f == FinishFfmpegProcess(st.w, st.procs)
             IN  [w |-> f.w, procs |-> f.procs, offset |-> None,
                  opened |-> need, created |-> need]
        ELSE IF out = "error"
        THEN [w |-> st.w, procs |-> st.procs, offset |-> None,
              opened |-> need, created |-> need]
        ELSE [w |-> [st.w EXCEPT !.frame_count = @ + 1],
              procs |-> [st.procs EXCEPT ![p].piped = @ + 1],
              offset |-> st.w.frame_count,
              opened |-> need, created |-> need]

\* close(): finish the pending chunk, if any
CloseWriter(wr, ps) == FinishFfmpegProcess(wr, ps)


----------------------------------------------------------------------------
(* Images, fingerprints and difference scores *)

\* image contents: 1 and 2 differ only in detail the downsample loses, 3 is another view
Images == {1, 2, 3}

Abs(x) == IF x < 0 THEN -x ELSE x

\* calculate_image_hash: MD5 of the 64x64 downsample.  A function of the image;
\* images 1 and 2 share their downsample, hence their fingerprint.
ImageHash(img) == (img + 1) \div 2

\* (histogram_diff + ssim_diff) / 2 of two images, in thousandths: symmetric,
\* 0 for the same image
CombinedDiff(a, b) == Abs(a - b) * 3

\* calculate_normalized_rms_diff, in thousandths
NormalizedRmsDiff(a, b) == Abs(a - b) * 2

Put(f, k, v) == [x \in (DOMAIN f) \cup {k} |-> IF x = k THEN v ELSE f[x]]

----------------------------------------------------------------------------
(* Window identity.  Names are strings, modelled as sequences of tokens; the *)
(* token "::" is the separator the code joins and splits keys with.          *)

Sep == "::"

\* f"{app_name}::{window_name}::{process_id}"
WindowKey(app, title, pid) == app \o <<Sep>> \o title \o <<Sep>> \o <<ToString(pid)>>

WindowPool ==
    { [app_name |-> <<"a">>, window_name |-> <<"t">>, process_id |-> 1],
      [app_name |-> <<"a">>, window_name |-> <<"t">>, process_id |-> 2] }

KeyOf(win) == WindowKey(win.app_name, win.window_name, win.process_id)

Monitors == {0, 1}

----------------------------------------------------------------------------
(* FrameDiffDetector *)

ScreenDiffState ==
    [previous_image |-> NoImage, previous_hash |-> 0, frame_count |-> 0,
     max_average_frame |-> NoImage, max_average_value |-> 0,
     max_average_frame_number |-> 0]

WindowDiffState(app, title) ==
    [previous_image |-> NoImage, previous_hash |-> 0, frame_count |-> 0,
     app_name |-> app, window_name |-> title]

FrameDiffDetector(screen_threshold, window_threshold, use_max_average) ==
    [screen_threshold |-> screen_threshold,
     window_threshold |-> window_threshold,
     use_max_average |-> use_max_average,
     screen_states |-> <<>>,
     window_states |-> <<>>]

\* _compare_images: equal fingerprints short-circuit to a difference of 0
CompareImages(current, previous, current_hash, previous_hash) ==
    IF current_hash = previous_hash THEN 0 ELSE CombinedDiff(current, previous)

\* the comparison with > in place of >=
ShouldStoreStrict(combined_diff, threshold) == combined_diff > threshold

\* should_store = combined_diff >= threshold
ShouldStore(combined_diff, threshold) == combined_diff >= threshold

FirstFrameScore == 1000     \* diff_score=1.0 of a first frame

\* a screen check that keeps the last captured frame as the reference
CheckScreenDiffLastCaptured(d, monitor_id, img, hash) ==
    LET states == IF monitor_id \in DOMAIN d.screen_states THEN d.screen_states
                  ELSE Put(d.screen_states, monitor_id, ScreenDiffState)
        st == [states[monitor_id] EXCEPT !.frame_count = @ + 1]
        combined == CompareImages(img, st.previous_image, hash, st.previous_hash)
    IN  [det |-> [d EXCEPT !.screen_states =
                     Put(states, monitor_id,
                         [st EXCEPT !.previous_image = img, !.previous_hash = hash])],
         should_store |-> st.previous_image = NoImage
                             \/ combined >= d.screen_threshold,
         diff_score |-> IF st.previous_image = NoImage THEN 1000 ELSE combined]

\* check_screen_diff: the new detector and the FrameDiffResult
CheckScreenDiff(d, monitor_id, img, hash) ==
    LET states == IF monitor_id \in DOMAIN d.screen_states THEN d.screen_states
                  ELSE Put(d.screen_states, monitor_id, ScreenDiffState)
        st == [states[monitor_id] EXCEPT !.frame_count = @ + 1]
        combined == CompareImages(img, st.previous_image, hash, st.previous_hash)
    IN  IF st.previous_image = NoImage
        THEN [det |-> [d EXCEPT !.screen_states =
                          Put(states, monitor_id,
                              [st EXCEPT !.previous_image = img, !.previous_hash = hash])],
              should_store |-> TRUE, diff_score |-> FirstFrameScore]
        ELSE IF ShouldStore(combined, d.screen_threshold)
        THEN [det |-> [d EXCEPT !.screen_states =
                          Put(states, monitor_id,
                              IF d.use_max_average
                              THEN [st EXCEPT !.previous_image = img,
                                              !.previous_hash = hash,
                                              !.max_average_frame = NoImage,
                                              !.max_average_value = 0,
                                              !.max_average_frame_number = 0]
                              ELSE [st EXCEPT !.previous_image = img,
                                              !.previous_hash = hash])],
              should_store |-> TRUE, diff_score |-> combined]
        ELSE [det |-> [d EXCEPT !.screen_states =
                          Put(states, monitor_id,
                              IF d.use_max_average /\ combined > st.max_average_value
                              THEN [st EXCEPT !.max_average_frame = img,
                                              !.max_average_value = combined,
                                              !.max_average_frame_number = st.frame_count]
                              ELSE st)],
              should_store |-> FALSE, diff_score |-> combined]

\* check_window_diff as it would be with a key of app and title only
CheckWindowDiffByName(d, win, img, hash) ==
    LET key == WindowKey(win.app_name, win.window_name, 0)
        states == IF key \in DOMAIN d.window_states THEN d.window_states
                  ELSE Put(d.window_states, key,
                           WindowDiffState(win.app_name, win.window_name))
        st == [states[key] EXCEPT !.frame_count = @ + 1]
        combined == CompareImages(img, st.previous_image, hash, st.previous_hash)
    IN  IF st.previous_image = NoImage
        THEN [det |-> [d EXCEPT !.window_states =
                          Put(states, key,
                              [st EXCEPT !.previous_image = img, !.previous_hash = hash])],
              should_store |-> TRUE, diff_score |-> FirstFrameScore]
        ELSE IF ShouldStore(combined, d.window_threshold)
        THEN [det |-> [d EXCEPT !.window_states =
                          Put(states, key,
                              [st EXCEPT !.previous_image = img, !.previous_hash = hash])],
              should_store |-> TRUE, diff_score |-> combined]
        ELSE [det |-> [d EXCEPT !.window_states = Put(states, key, st)],
              should_store |-> FALSE, diff_score |-> combined]

\* check_window_diff
CheckWindowDiff(d, win, img, hash) ==
    LET key == KeyOf(win)
        states == IF key \in DOMAIN d.window_states THEN d.window_states
                  ELSE Put(d.window_states, key,
                           WindowDiffState(win.app_name, win.window_name))
        st == [states[key] EXCEPT !.frame_count = @ + 1]
        combined == CompareImages(img, st.previous_image, hash, st.previous_hash)
    IN  IF st.previous_image = NoImage
        THEN [det |-> [d EXCEPT !.window_states =
                          Put(states, key,
                              [st EXCEPT !.previous_image = img, !.previous_hash = hash])],
              should_store |-> TRUE, diff_score |-> FirstFrameScore]
        ELSE IF ShouldStore(combined, d.window_threshold)
        THEN [det |-> [d EXCEPT !.window_states =
                          Put(states, key,
                              [st EXCEPT !.previous_image = img, !.previous_hash = hash])],
              should_store |-> TRUE, diff_score |-> combined]
        ELSE [det |-> [d EXCEPT !.window_states = Put(states, key, st)],
              should_store |-> FALSE, diff_score |-> combined]

Restrict(f, keep) == [x \in (DOMAIN f) \cap keep |-> f[x]]

\* cleanup_stale_windows: drop the state of every key not in active_window_keys
CleanupStaleWindows(d, active_window_keys) ==
    [d EXCEPT !.window_states = Restrict(@, active_window_keys)]

\* reset_state(monitor_id): one monitor's state; reset_state(None): everything
ResetState(d, monitor_id) ==
    IF monitor_id # None
    THEN [d EXCEPT !.screen_states = Restrict(@, (DOMAIN @) \ {monitor_id})]
    ELSE [d EXCEPT !.screen_states = <<>>, !.window_states = <<>>]

----------------------------------------------------------------------------
(* SimpleFrameFilter (main.py) *)

SimpleFrameFilter(diff_threshold) ==
    [last_frame_image |-> NoImage, diff_threshold |-> diff_threshold]

\* should_keep: the new filter and the answer
ShouldKeep(f, img) ==
    IF f.last_frame_image = NoImage
    THEN [filter |-> [f EXCEPT !.last_frame_image = img], keep |-> TRUE]
    ELSE IF NormalizedRmsDiff(f.last_frame_image, img) < f.diff_threshold
    THEN [filter |-> f, keep |-> FALSE]
    ELSE [filter |-> [f EXCEPT !.last_frame_image = img], keep |-> TRUE]

----------------------------------------------------------------------------
(* LanceDBStorage: the frames table.  self.table is None until the first    *)
(* insert creates it; rows are appended, never updated in place.            *)

LanceDBStorage == [table |-> FALSE, rows |-> <<>>]

RowsOf(rows, frame_id) == {i \in DOMAIN rows : rows[i].frame_id = frame_id}

\* table.delete(f"frame_id = '{frame_id}'")
DeleteRows(rows, frame_id) == SelectSeq(rows, LAMBDA r : r.frame_id # frame_id)

StoreOutcomes == {"ok", "save_fail", "check_fail", "delete_fail", "add_fail"}

\* store_frame.  out: "save_fail" _save_image raises, "check_fail" the
\* existence search raises, "delete_fail" table.delete raises, "add_fail"
\* create_table / table.add raises.  Result: the store and the returned bool.
StoreFrame(ls, row, out) ==
    IF out = "save_fail" THEN [store |-> ls, ok |-> FALSE]
    ELSE IF ~ls.table
    THEN IF out = "add_fail" THEN [store |-> ls, ok |-> FALSE]
         ELSE [store |-> [table |-> TRUE, rows |-> <<row>>], ok |-> TRUE]
    ELSE LET existing == out # "check_fail" /\ RowsOf(ls.rows, row.frame_id) # {}
             kept == IF existing /\ out # "delete_fail"
                     THEN DeleteRows(ls.rows, row.frame_id) ELSE ls.rows
         IN  IF out = "add_fail"
             THEN [store |-> [ls EXCEPT !.rows = kept], ok |-> FALSE]
             ELSE [store |-> [ls EXCEPT !.rows = Append(kept, row)], ok |-> TRUE]

RECURSIVE DeleteAll(_, _)
DeleteAll(rows, ids) ==
    IF ids = {} THEN rows
    ELSE LET id == CHOOSE x \in ids : TRUE
         IN  DeleteAll(DeleteRows(rows, id), ids \ {id})

\* store_frames_batch.  check_fail / delete_fail: the frame_ids whose
\* existence search / delete raises (each is swallowed on its own).
StoreFramesBatch(ls, batch, out, check_fail, delete_fail) ==
    IF batch = <<>> THEN [store |-> ls, ok |-> TRUE]
    ELSE IF out = "save_fail" THEN [store |-> ls, ok |-> FALSE]
    ELSE LET ids == {batch[i].frame_id : i \in DOMAIN batch}
             existing_frame_ids ==
                 {id \in ids : id \notin check_fail /\ RowsOf(ls.rows, id) # {}}
             kept == IF ls.table
                     THEN DeleteAll(ls.rows, existing_frame_ids \ delete_fail)
                     ELSE ls.rows
         IN  IF out = "add_fail"
             THEN [store |-> [ls EXCEPT !.rows = kept], ok |-> FALSE]
             ELSE [store |-> [table |-> TRUE, rows |-> kept \o batch], ok |-> TRUE]

IdleLance ==
    /\ lance = LanceDBStorage
    /\ written = {}
    /\ lcalls = 0

----------------------------------------------------------------------------
(* SQLiteStorage.  frames and sub_frames are keyed by their primary key;     *)
(* ocr_text, video_chunks and window_chunks have AUTOINCREMENT ids and are   *)
(* never deleted from, so a row's id is its position.  Every method catches  *)
(* its own exceptions: ok = FALSE is the call raising before its commit.     *)

Null == -2          \* SQL NULL in an integer column
NoId == <<>>        \* SQL NULL in a frame_id / sub_frame_id column

SQLiteStorage ==
    [frames |-> <<>>, sub_frames |-> <<>>, ocr_text |-> <<>>,
     video_chunks |-> <<>>, window_chunks |-> <<>>, mapping |-> {}]

\* store_frame_with_ocr: INSERT OR REPLACE INTO frames (frame_id, timestamp,
\* image_path, device_name, metadata), the other columns taking their
\* defaults, then one more ocr_text row when the text is not empty
StoreFrameWithOcr(store, frame_id, timestamp, image_path, ocr_text, device_name, ok) ==
    IF ~ok THEN store
    ELSE [store EXCEPT
            !.frames = Put(@, frame_id,
                [timestamp |-> timestamp, image_path |-> image_path,
                 device_name |-> device_name, video_chunk_id |-> Null,
                 offset_index |-> Null, monitor_id |-> 0, image_hash |-> Null]),
            !.ocr_text = IF ocr_text # ""
                         THEN Append(@, [frame_id |-> frame_id, sub_frame_id |-> NoId,
                                         text |-> ocr_text])
                         ELSE @]

\* insert_video_chunk: the new store and the returned chunk_id (-1 on failure)
InsertVideoChunk(store, file_path, monitor_id, device_name, fps, ok) ==
    IF ~ok THEN [db |-> store, id |-> -1]
    ELSE [db |-> [store EXCEPT !.video_chunks =
                    Append(@, [id |-> Len(@) + 1, file_path |-> file_path,
                               monitor_id |-> monitor_id, device_name |-> device_name,
                               fps |-> fps, frame_count |-> 0])],
          id |-> Len(store.video_chunks) + 1]

\* insert_window_chunk
InsertWindowChunk(store, file_path, app_name, window_name, monitor_id, fps, ok) ==
    IF ~ok THEN [db |-> store, id |-> -1]
    ELSE [db |-> [store EXCEPT !.window_chunks =
                    Append(@, [id |-> Len(@) + 1, file_path |-> file_path,
                               app_name |-> app_name, window_name |-> window_name,
                               monitor_id |-> monitor_id, fps |-> fps,
                               frame_count |-> 0])],
          id |-> Len(store.window_chunks) + 1]

\* update_chunk_frame_count: UPDATE {table} SET frame_count = ? WHERE id = ?
UpdateChunkFrameCount(store, chunk_id, frame_count, chunk_type, ok) ==
    IF ~ok THEN store
    ELSE IF chunk_type = "video"
    THEN [store EXCEPT !.video_chunks =
            [i \in DOMAIN @ |-> IF @[i].id = chunk_id
                                THEN [@[i] EXCEPT !.frame_count = frame_count]
                                ELSE @[i]]]
    ELSE [store EXCEPT !.window_chunks =
            [i \in DOMAIN @ |-> IF @[i].id = chunk_id
                                THEN [@[i] EXCEPT !.frame_count = frame_count]
                                ELSE @[i]]]

\* store_frame_with_video_ref: INSERT OR REPLACE of the whole row
StoreFrameWithVideoRef(store, frame_id, timestamp, video_chunk_id, offset_index, monitor_id, image_hash, device_name, ok) ==
    IF ~ok THEN store
    ELSE [store EXCEPT !.frames = Put(@, frame_id,
            [timestamp |-> timestamp,
             image_path |-> <<"video_chunk", video_chunk_id, offset_index>>,
             device_name |-> device_name, video_chunk_id |-> video_chunk_id,
             offset_index |-> offset_index, monitor_id |-> monitor_id,
             image_hash |-> image_hash])]

\* store_sub_frame: INSERT OR REPLACE of the whole row
StoreSubFrame(store, sub_frame_id, timestamp, window_chunk_id, offset_index, app_name, window_name, process_id, is_focused, image_hash, ok) ==
    IF ~ok THEN store
    ELSE [store EXCEPT !.sub_frames = Put(@, sub_frame_id,
            [window_chunk_id |-> window_chunk_id, offset_index |-> offset_index,
             timestamp |-> timestamp, app_name |-> app_name,
             window_name |-> window_name, process_id |-> process_id,
             is_focused |-> is_focused, image_hash |-> image_hash])]

\* store_sub_frame_ocr: one more ocr_text row when the text is not empty
StoreSubFrameOcr(store, sub_frame_id, ocr_text, ok) ==
    IF ~ok \/ ocr_text = "" THEN store
    ELSE [store EXCEPT !.ocr_text =
            Append(@, [frame_id |-> NoId, sub_frame_id |-> sub_frame_id,
                       text |-> ocr_text])]

\* add_frame_subframe_mappings_batch: INSERT OR IGNORE under UNIQUE(frame_id, sub_frame_id)
AddFrameSubframeMappingsBatch(store, frame_id, sub_frame_ids, ok) ==
    IF ~ok THEN store
    ELSE [store EXCEPT !.mapping =
            @ \cup {<<frame_id, sub_frame_ids[i]>> : i \in DOMAIN sub_frame_ids}]

MaxOf(S) == CHOOSE x \in S : \A y \in S : y <= x

\* _get_latest_video_chunk_id: the greatest id of the monitor's chunk rows, 0
\* when there is none or the query raises
GetLatestVideoChunkId(store, monitor_id, ok) ==
    LET ids == {store.video_chunks[i].id : i \in
                  {j \in DOMAIN store.video_chunks : store.video_chunks[j].monitor_id = monitor_id}}
    IN  IF ~ok \/ ids = {} THEN 0 ELSE MaxOf(ids)

\* _get_latest_window_chunk_id: the greatest id of the chunk rows with this
\* app_name and window_name, 0 when there is none or the query raises
GetLatestWindowChunkId(store, app_name, window_name, ok) ==
    LET ids == {store.window_chunks[i].id : i \in
                  {j \in DOMAIN store.window_chunks :
                      /\ store.window_chunks[j].app_name = app_name
                      /\ store.window_chunks[j].window_name = window_name}}
    IN  IF ~ok \/ ids = {} THEN 0 ELSE MaxOf(ids)

----------------------------------------------------------------------------
(* VideoChunkManager: one writer per monitor and per window key.  Its        *)
(* on_chunk_created is the coordinator's _on_chunk_created, which inserts    *)
(* the chunk row; insert_ok = FALSE is that insert failing (it returns -1,   *)
(* which nobody reads).                                                      *)

VideoChunkManager(fps, chunk_duration) ==
    [fps |-> fps, chunk_duration |-> chunk_duration,
     screen_writers |-> <<>>, window_writers |-> <<>>]

RECURSIVE Split(_, _)
\* str.split(sep) on a token sequence
Split(s, sep) ==
    IF \A i \in DOMAIN s : s[i] # sep THEN <<s>>
    ELSE LET i == CHOOSE k \in DOMAIN s :
                      s[k] = sep /\ \A j \in 1..(k - 1) : s[j] # sep
         IN  <<SubSeq(s, 1, i - 1)>> \o Split(SubSeq(s, i + 1, Len(s)), sep)

\* _on_chunk_created: the store after the chunk row's insert, and the id the
\* insert returned.  A screen identifier is <<"monitor", n>> for "monitor_n".
OnChunkCreated(store, cfg, chunk_path, chunk_type, identifier, insert_ok) ==
    IF chunk_type = "screen"
    THEN InsertVideoChunk(store, chunk_path,
                          IF Len(identifier) > 1 THEN identifier[2] ELSE 0,
                          identifier, cfg.fps, insert_ok)
    ELSE LET parts == Split(identifier, Sep)
         IN  InsertWindowChunk(store, chunk_path,
                               IF Len(parts) > 0 THEN parts[1] ELSE <<"unknown">>,
                               IF Len(parts) > 1 THEN parts[2] ELSE <<"unknown">>,
                               cfg.monitor_id, cfg.fps, insert_ok)

\* get_screen_writer / get_window_writer: the writer of the stream, created
\* on first use
GetScreenWriter(mgr, monitor_id, ffmpeg) ==
    IF monitor_id \in DOMAIN mgr.screen_writers THEN mgr.screen_writers[monitor_id]
    ELSE VideoChunkWriter("screen", <<"monitor", monitor_id>>, mgr.fps,
                          mgr.chunk_duration, ffmpeg)

GetWindowWriter(mgr, app_name, window_name, process_id, ffmpeg) ==
    LET window_key == WindowKey(app_name, window_name, process_id)
    IN  IF window_key \in DOMAIN mgr.window_writers THEN mgr.window_writers[window_key]
        ELSE VideoChunkWriter("window", window_key, mgr.fps, mgr.chunk_duration, ffmpeg)

\* The tail of write_screen_frame / write_window_frame, given the result r of
\* writer.write_frame: the callback's insert when a process was spawned, the
\* writer kept under its key, and what the coordinator gets back.  ok /
\* chunk_path / offset are the (chunk_path, offset_index) tuple or None;
\* created, spawned and row say whether a process was spawned, which one, and
\* what the insert of its chunk row returned.
ManagerWrite(mgr, store, cfg, chunk_type, key, identifier, insert_ok, r) ==
    LET cb == IF r.created
              THEN OnChunkCreated(store, cfg, r.w.current_chunk_path, chunk_type,
                                  identifier, insert_ok)
              ELSE [db |-> store, id |-> None]
    IN  [vm |-> IF chunk_type = "screen"
                THEN [mgr EXCEPT !.screen_writers = Put(@, key, r.w)]
                ELSE [mgr EXCEPT !.window_writers = Put(@, key, r.w)],
         procs |-> r.procs, db |-> cb.db,
         ok |-> r.offset # None, chunk_path |-> r.w.current_chunk_path,
         offset |-> r.offset, proc |-> r.w.ffmpeg_process,
         created |-> r.created, spawned |-> Len(r.procs), row |-> cb.id]

\* write_screen_frame
WriteScreenFrame(mgr, ps, store, cfg, monitor_id, t, out, insert_ok) ==
    ManagerWrite(mgr, store, cfg, "screen", monitor_id,
                 GetScreenWriter(mgr, monitor_id, cfg.ffmpeg).identifier, insert_ok,
                 WriteFrame(GetScreenWriter(mgr, monitor_id, cfg.ffmpeg), ps, t, out))

\* write_window_frame
WriteWindowFrame(mgr, ps, store, cfg, app_name, window_name, process_id, t, out, insert_ok) ==
    ManagerWrite(mgr, store, cfg, "window",
                 WindowKey(app_name, window_name, process_id),
                 GetWindowWriter(mgr, app_name, window_name, process_id,
                                 cfg.ffmpeg).identifier,
                 insert_ok,
                 WriteFrame(GetWindowWriter(mgr, app_name, window_name, process_id,
                                            cfg.ffmpeg), ps, t, out))

RECURSIVE CloseWriters(_, _)
\* close() of every writer in a map, one after the other: their processes are
\* finished
CloseWriters(writers, ps) ==
    IF DOMAIN writers = {} THEN ps
    ELSE LET k == CHOOSE x \in DOMAIN writers : TRUE
         IN  CloseWriters(Restrict(writers, (DOMAIN writers) \ {k}),
                          CloseWriter(writers[k], ps).procs)

\* a cleanup that forgets the writers of the keys not active without closing them
CleanupForgetting(mgr, ps, active_keys) ==
    [vm |-> [mgr EXCEPT !.window_writers = Restrict(@, active_keys)], procs |-> ps]

\* cleanup_inactive_windows: close and forget the writers of the keys not active
CleanupInactiveWindows(mgr, ps, active_keys) ==
    [vm |-> [mgr EXCEPT !.window_writers = Restrict(@, active_keys)],
     procs |-> CloseWriters(Restrict(mgr.window_writers,
                                     (DOMAIN mgr.window_writers) \ active_keys), ps)]

\* close_all
CloseAll(mgr, ps) ==
    [vm |-> [mgr EXCEPT !.screen_writers = <<>>, !.window_writers = <<>>],
     procs |-> CloseWriters(mgr.window_writers, CloseWriters(mgr.screen_writers, ps))]

----------------------------------------------------------------------------
(* RecordingCoordinator.  A session record S carries what one tick reads and *)
(* writes: det (self.frame_diff), mgr (self.video_manager), procs, store, stats, *)
(* ids (frame / sub-frame ids generated so far; they are unique) and hist,   *)
(* the history the properties are stated over:                               *)
(*   hist.truth[id]    the process and the position a stored frame's or      *)
(*                     sub-frame's image went to;                            *)
(*   hist.row[p]       what the insert of process p's chunk row returned;    *)
(*   hist.inserted[id] the frames row as it was first inserted;              *)
(*   hist.failed       the frame ids whose store_frame_with_video_ref call   *)
(*                     failed;                                               *)
(*   hist.active_window_keys  self._active_window_keys, the window keys of   *)
(*                     the last capture that was processed.                  *)
(* cfg holds the RecordingConfig and the session's surroundings: whether  *)
(* FFmpeg was found and whether an ocr_engine was given.                     *)

RecordingStats ==
    [frames_captured |-> 0, frames_stored |-> 0, windows_captured |-> 0,
     windows_stored |-> 0, ocr_processed |-> 0, errors |-> 0]

NoHistory ==
    [truth |-> <<>>, row |-> <<>>, inserted |-> <<>>, failed |-> {},
     active_window_keys |-> {}]

\* what the OCR engine reads off an image: text on image 1, nothing on the others
OcrText(img) == IF img = 1 THEN "txt" ELSE ""

\* ScreenObject as the capturer builds it; a window's image is its crop of the screen
ScreenObject(cfg, t, img, windows) ==
    [timestamp |-> t, monitor_id |-> cfg.monitor_id,
     device_name |-> <<"monitor", cfg.monitor_id>>,
     full_screen_image |-> img, full_screen_hash |-> ImageHash(img),
     windows |-> [i \in DOMAIN windows |->
                    [app_name |-> windows[i].app_name,
                     window_name |-> windows[i].window_name,
                     process_id |-> windows[i].process_id,
                     is_focused |-> i = 1,
                     image |-> img, image_hash |-> ImageHash(img)]]]

\* the failures one tick can meet; "none" is a tick without failure
Faults ==
    {"none", "capture_none",
     "screen_spawn", "screen_pipe", "screen_write", "video_chunk_insert",
     "video_chunk_lookup", "frame_store", "screen_ocr", "frame_ocr_store",
     "window_spawn", "window_pipe", "window_write", "window_chunk_insert",
     "window_chunk_lookup", "sub_frame_store", "window_ocr", "sub_frame_ocr_store",
     "mapping_store"}

\* what a fault does to the write_frame call of a stream kind
WriteOutcome(fault, spawn, pipe, write) ==
    IF fault = spawn THEN "spawn_fail"
    ELSE IF fault = pipe THEN "broken_pipe"
    ELSE IF fault = write THEN "error"
    ELSE "ok"

\* the row a spawned process's chunk insert returned, remembered per process
NoteChunkRow(row, wr) == IF wr.created THEN Put(row, wr.spawned, wr.row) ELSE row

\* process_capture lines 282-318: the screen frame went into a chunk (wr.ok);
\* its frames row, its OCR text, the counters
RecordFrame(S, cfg, so, fault, frame_id, wr) ==
    LET video_chunk_id ==
            GetLatestVideoChunkId(wr.db, cfg.monitor_id, fault # "video_chunk_lookup")
        db1 == StoreFrameWithVideoRef(wr.db, frame_id, so.timestamp, video_chunk_id,
                   wr.offset, so.monitor_id, so.full_screen_hash, so.device_name,
                   fault # "frame_store")
        ocr_on == cfg.run_ocr /\ cfg.ocr_engine
        ocr_text == IF ocr_on /\ fault # "screen_ocr"
                    THEN OcrText(so.full_screen_image) ELSE ""
        db2 == IF ocr_text # ""
               THEN StoreFrameWithOcr(db1, frame_id, so.timestamp,
                        <<"video_chunk", video_chunk_id, wr.offset>>,
                        ocr_text, so.device_name, fault # "frame_ocr_store")
               ELSE db1
    IN  [S EXCEPT
           !.db = db2,
           !.stats.errors = IF ocr_on /\ fault = "screen_ocr" THEN @ + 1 ELSE @,
           !.stats.ocr_processed = IF ocr_text # "" THEN @ + 1 ELSE @,
           !.stats.frames_stored = @ + 1,
           !.result.frame_id = frame_id,
           !.hist.truth = Put(@, frame_id, [proc |-> wr.proc, offset |-> wr.offset]),
           !.hist.failed = IF fault = "frame_store" THEN @ \cup {frame_id} ELSE @,
           !.hist.inserted =
               IF frame_id \in DOMAIN db1.frames THEN Put(@, frame_id, db1.frames[frame_id])
               ELSE IF frame_id \in DOMAIN db2.frames
               THEN Put(@, frame_id, db2.frames[frame_id])
               ELSE @]

\* process_capture lines 273-282: a frame id is generated, the frame is
\* written to the screen chunk; wr is what write_screen_frame did
AfterScreenWrite(S, cfg, so, fault, wr) ==
    IF ~wr.ok
    THEN [S EXCEPT !.ids = @ + 1, !.vm = wr.vm, !.procs = wr.procs, !.db = wr.db,
                   !.hist.row = NoteChunkRow(@, wr)]
    ELSE RecordFrame([S EXCEPT !.ids = @ + 1, !.vm = wr.vm, !.procs = wr.procs,
                               !.hist.row = NoteChunkRow(@, wr)],
                     cfg, so, fault, <<"frame", S.ids + 1>>, wr)

\* process_capture step 3
StoreScreen(S, cfg, so, fault) ==
    IF ~S.screen_diff_result.should_store THEN S
    ELSE AfterScreenWrite(S, cfg, so, fault,
             WriteScreenFrame(S.vm, S.procs, S.db, cfg, so.monitor_id, so.timestamp,
                              WriteOutcome(fault, "screen_spawn", "screen_pipe",
                                           "screen_write"),
                              fault # "video_chunk_insert"))

\* process_capture lines 348-383: the window frame went into a chunk (wr.ok)
RecordSubFrame(S, cfg, so, window, fault, sub_frame_id, wr) ==
    LET window_chunk_id ==
            GetLatestWindowChunkId(wr.db, window.app_name, window.window_name,
                                   fault # "window_chunk_lookup")
        db1 == StoreSubFrame(wr.db, sub_frame_id, so.timestamp, window_chunk_id,
                   wr.offset, window.app_name, window.window_name, window.process_id,
                   window.is_focused, window.image_hash, fault # "sub_frame_store")
        ocr_on == cfg.run_ocr /\ cfg.ocr_engine
        ocr_text == IF ocr_on /\ fault # "window_ocr" THEN OcrText(window.image) ELSE ""
    IN  [S EXCEPT
           !.db = StoreSubFrameOcr(db1, sub_frame_id, ocr_text,
                                   fault # "sub_frame_ocr_store"),
           !.stats.errors = IF ocr_on /\ fault = "window_ocr" THEN @ + 1 ELSE @,
           !.stats.ocr_processed = IF ocr_text # "" THEN @ + 1 ELSE @,
           !.stats.windows_stored = @ + 1,
           !.result.sub_frame_ids = Append(@, sub_frame_id),
           !.hist.truth = Put(@, sub_frame_id,
                              [proc |-> wr.proc, offset |-> wr.offset])]

\* process_capture lines 338-348: wr is what write_window_frame did
AfterWindowWrite(S, cfg, so, window, fault, wr) ==
    IF ~wr.ok
    THEN [S EXCEPT !.ids = @ + 1, !.vm = wr.vm, !.procs = wr.procs, !.db = wr.db,
                   !.hist.row = NoteChunkRow(@, wr)]
    ELSE RecordSubFrame([S EXCEPT !.ids = @ + 1, !.vm = wr.vm, !.procs = wr.procs,
                                  !.hist.row = NoteChunkRow(@, wr)],
                        cfg, so, window, fault, <<"subframe", S.ids + 1>>, wr)

\* process_capture lines 333-337: chk is what check_window_diff answered
AfterWindowDiff(S, cfg, so, window, fault, chk) ==
    IF ~chk.should_store
    THEN [S EXCEPT !.stats.windows_captured = @ + 1, !.det = chk.det]
    ELSE AfterWindowWrite(
             [S EXCEPT !.stats.windows_captured = @ + 1, !.det = chk.det],
             cfg, so, window, fault,
             WriteWindowFrame(S.vm, S.procs, S.db, cfg, window.app_name,
                              window.window_name, window.process_id, so.timestamp,
                              WriteOutcome(fault, "window_spawn", "window_pipe",
                                           "window_write"),
                              fault # "window_chunk_insert"))

\* process_capture step 4 for one window
StoreWindow(S, cfg, so, window, fault) ==
    AfterWindowDiff(S, cfg, so, window, fault,
                    CheckWindowDiff(S.det, window, window.image, window.image_hash))

RECURSIVE StoreWindows(_, _, _, _, _)
\* the loop of step 4, from window i on
StoreWindows(S, cfg, so, i, fault) ==
    IF i > Len(so.windows) THEN S
    ELSE StoreWindows(StoreWindow(S, cfg, so, so.windows[i], fault),
                      cfg, so, i + 1, fault)

\* process_capture steps 1 and 2: the screen diff, then the writers of the
\* windows that are gone are closed
TrackWindows(S, so, chk) ==
    LET cl == CleanupInactiveWindows(S.vm, S.procs,
                                     {KeyOf(so.windows[i]) : i \in DOMAIN so.windows})
    IN  [S EXCEPT !.stats.frames_captured = @ + 1, !.det = chk.det,
                  !.hist.active_window_keys =
                      {KeyOf(so.windows[i]) : i \in DOMAIN so.windows},
                  !.screen_diff_result =
                      [should_store |-> chk.should_store, diff_score |-> chk.diff_score],
                  !.result = [frame_id |-> NoId, sub_frame_ids |-> <<>>],
                  !.vm = cl.vm, !.procs = cl.procs]

\* process_capture step 5
CreateMappings(S, fault) ==
    IF S.result.frame_id # NoId /\ S.result.sub_frame_ids # <<>>
    THEN [S EXCEPT !.db = AddFrameSubframeMappingsBatch(@, S.result.frame_id,
                              S.result.sub_frame_ids, fault # "mapping_store")]
    ELSE S

\* process_capture
ProcessCapture(S, cfg, so, fault) ==
    CreateMappings(
        StoreWindows(
            StoreScreen(
                TrackWindows(S, so,
                    CheckScreenDiff(S.det, so.monitor_id, so.full_screen_image,
                                    so.full_screen_hash)),
                cfg, so, fault),
            cfg, so, 1, fault),
        fault)

\* capture_and_process: a capture that returns None only counts an error
CaptureAndProcess(S, cfg, so, fault) ==
    IF fault = "capture_none" THEN [S EXCEPT !.stats.errors = @ + 1]
    ELSE ProcessCapture(S, cfg, so, fault)

RecordingConfig(monitor_id, chunk_duration, run_ocr, ocr_engine, ffmpeg) ==
    [monitor_id |-> monitor_id, fps |-> DEFAULT_FPS, chunk_duration |-> chunk_duration,
     screen_diff_threshold |-> 6, window_diff_threshold |-> 6,
     run_ocr |-> run_ocr, ocr_engine |-> ocr_engine, ffmpeg |-> ffmpeg]

\* RecordingCoordinator.__init__ for a given config
NewCoordinator ==
    /\ det = FrameDiffDetector(config.screen_diff_threshold,
                               config.window_diff_threshold, TRUE)
    /\ vm = VideoChunkManager(config.fps, config.chunk_duration)
    /\ db = SQLiteStorage
    /\ stats = RecordingStats
    /\ generated = 0
    /\ hist = NoHistory
    /\ is_running = FALSE
    /\ iteration = 0
    /\ faulted = FALSE

IdleCoordinator ==
    /\ config = RecordingConfig(0, 1, FALSE, FALSE, TRUE)
    /\ vm = VideoChunkManager(config.fps, config.chunk_duration)
    /\ db = SQLiteStorage
    /\ stats = RecordingStats
    /\ generated = 0
    /\ hist = NoHistory
    /\ is_running = FALSE
    /\ iteration = 0
    /\ faulted = FALSE

NoDecision == [valid |-> FALSE]
StreamKinds == {"screen", "window", "simple"}

IdleDetector ==
    /\ det = FrameDiffDetector(6, 6, TRUE)
    /\ simple = SimpleFrameFilter(6)
    /\ seen = {}
    /\ dlast = [k \in StreamKinds |-> NoDecision]
    /\ nchecks = 0

----------------------------------------------------------------------------
(* main.py in vector mode: capture_and_store_pipeline on the main thread,   *)
(* the OCR worker thread, and the queue between them.  A task is the        *)
(* frame_id, timestamp and image of a stored frame.  frame_id is            *)
(* generate_frame_id(timestamp), one string per microsecond: here the       *)
(* timestamp itself.                                                         *)

\* queue.Queue(maxsize=100); the model's queue is shorter, so that a full
\* queue is within reach
OcrQueueMaxsize == 2

\* an enqueue whose put waits for a free slot
EnqueueBlocking(q, use_ocr, task, copy_ok) ==
    IF ~use_ocr \/ ~copy_ok THEN [queue |-> q, blocked |-> FALSE]
    ELSE IF Len(q.items) >= OcrQueueMaxsize THEN [queue |-> q, blocked |-> TRUE]
    ELSE [queue |-> [items |-> Append(q.items, task), unfinished |-> q.unfinished + 1],
          blocked |-> FALSE]

\* enqueue_ocr_task: nothing without OCR; put(task, block=False) never waits:
\* on a full queue it raises queue.Full, which is caught, as is a failing
\* image.copy().  Result: the queue, and whether the caller is left waiting.
EnqueueOcrTask(q, use_ocr, task, copy_ok) ==
    IF ~use_ocr \/ ~copy_ok THEN [queue |-> q, blocked |-> FALSE]
    ELSE IF Len(q.items) >= OcrQueueMaxsize THEN [queue |-> q, blocked |-> FALSE]
    ELSE [queue |-> [items |-> Append(q.items, task), unfinished |-> q.unfinished + 1],
          blocked |-> FALSE]

\* the body of ocr_worker's loop for the task at the head of the queue.
\* out: "ocr_raise" ocr_engine.recognize raises (the except clause logs, and
\* task_done is not reached), "store_fail" store_frame_with_ocr returns False.
OcrWorkerTask(q, store, out) ==
    LET task == Head(q.items)
    IN  [queue |-> [items |-> Tail(q.items),
                    unfinished |-> IF out = "ocr_raise" THEN q.unfinished
                                   ELSE q.unfinished - 1],
         db |-> IF out = "ocr_raise" THEN store
                ELSE StoreFrameWithOcr(store, task.frame_id, task.timestamp,
                                       <<"jpg", task.frame_id>>, OcrText(task.image),
                                       "default", out = "ok")]

IdleIngest ==
    /\ USE_OCR = FALSE
    /\ ocr_queue = [items |-> <<>>, unfinished |-> 0]
    /\ ocr_thread_running = TRUE
    /\ worker = "check"
    /\ main = "loop"
    /\ at_stop = {}
    /\ enq = [valid |-> FALSE]

\* run_continuous not entered, no stop() from outside
IdleStop ==
    /\ run = "idle"
    /\ held = [valid |-> FALSE]
    /\ stopper = [called |-> FALSE, ticks_after |-> 0]

----------------------------------------------------------------------------
(* Query planning: rewrite_and_time, then the dense and the sparse search    *)
(* of _vector_rag and the merge of their results.                            *)

NoRange == <<>>     \* time_range is None

\* extract_time_range: the pattern is the raw string "(\\d{4}-\\d{2}-..." in
\* which \\d is a backslash followed by the letter d, not a digit class; what
\* it finds is never a date fromisoformat accepts, so the answer is None for
\* every text
ExtractTimeRange(text) == NoRange

\* lines 167-188: the time_range of a parsed dict.  tr.tag: "absent", "null",
\* "string" or "dict"; in a dict, start / end are 0 when missing or empty,
\* -1 for a string fromisoformat rejects, otherwise a point in time
TimeRangeOf(tr) ==
    IF tr.tag \in {"absent", "null"} THEN NoRange
    ELSE IF tr.tag = "string" THEN ExtractTimeRange(tr)
    ELSE IF tr.start = 0 \/ tr.end = 0 THEN NoRange
    ELSE IF tr.start < 0 \/ tr.end < 0 THEN ExtractTimeRange(tr)
    ELSE IF tr.start > tr.end THEN <<tr.end, tr.start>>
    ELSE <<tr.start, tr.end>>

\* lines 159-164: dense_queries / sparse_queries of a parsed dict.  f.tag:
\* "absent", "scalar" (present, not a list) or "list"
QueriesOf(f, query) ==
    IF f.tag = "list" /\ f.items # <<>> THEN f.items ELSE <<query>>

\* rewrite_and_time.  resp is what the LLM call did: kind "exception" (it
\* raised: HTTP error, timeout, empty content), "empty" (no text), "text"
\* (text json.loads rejects) or "json" with the value json.loads returns.
\* Testing "dense_queries" in parsed raises TypeError when parsed is null, a
\* number or a boolean, and only AttributeError / KeyError are caught.
RewriteAndTime(query, enable_rewrite, enable_time, resp) ==
    LET fallback == [raised |-> FALSE, dense_queries |-> <<query>>,
                     sparse_queries |-> <<query>>, time_range |-> NoRange]
    IN  IF ~(enable_rewrite \/ enable_time) THEN fallback
        ELSE IF resp.kind \in {"exception", "empty"} THEN fallback
        ELSE IF resp.kind = "text"
        THEN [fallback EXCEPT !.time_range =
                 IF enable_time THEN ExtractTimeRange(resp) ELSE NoRange]
        ELSE IF enable_rewrite /\ resp.value.type \in {"null", "number", "bool"}
        THEN [fallback EXCEPT !.raised = TRUE]
        ELSE IF resp.value.type # "dict"
        THEN [fallback EXCEPT !.time_range =
                 IF enable_time THEN ExtractTimeRange(resp) ELSE NoRange]
        ELSE [raised |-> FALSE,
              dense_queries |-> IF enable_rewrite
                                THEN QueriesOf(resp.value.dense_queries, query)
                                ELSE <<query>>,
              sparse_queries |-> IF enable_rewrite
                                 THEN QueriesOf(resp.value.sparse_queries, query)
                                 ELSE <<query>>,
              time_range |-> IF enable_time THEN TimeRangeOf(resp.value.time_range)
                             ELSE NoRange]

\* a merge that keeps every sparse result
MergeKeepingAll(dense_results, sparse_results) == dense_results \o sparse_results

RECURSIVE MergeResults(_, _)
\* lines 309-335: the results of the two searches in one list, dense first, a
\* frame_id kept where it is first seen
MergeResults(dense_results, sparse_results) ==
    LET all == dense_results \o sparse_results
    IN  IF all = <<>> THEN <<>>
        ELSE LET front == SubSeq(all, 1, Len(all) - 1)
                 r == all[Len(all)]
                 merged == MergeResults(front, <<>>)
             IN  IF \E i \in DOMAIN front : front[i].frame_id = r.frame_id
                 THEN merged ELSE Append(merged, r)

IdleQuery ==
    /\ rw = [valid |-> FALSE]
    /\ plan = [pc |-> "start"]

----------------------------------------------------------------------------
(* FrameCache (query.py).  A stored frame is its frame_id, timestamp and     *)
(* image; image NoImage is a frame whose file is missing or does not open.   *)
(* max_size is MAX_IMAGES_TO_LOAD, a positive count.                         *)

FrameCache(max_size, diff_threshold) ==
    [max_size |-> max_size, diff_threshold |-> diff_threshold,
     cached_frames |-> <<>>, last_check_time |-> None]

\* _should_add_frame: the first frame, or one that differs from the last
\* cached frame by more than the threshold
ShouldAddFrame(c, new_frame) ==
    \/ c.cached_frames = <<>>
    \/ NormalizedRmsDiff(c.cached_frames[Len(c.cached_frames)].image, new_frame.image)
          > c.diff_threshold

\* an append that evicts nothing
AppendKeepingAll(cached_frames, new_frame, max_size) == Append(cached_frames, new_frame)

\* lines 211-217: append, then pop(0) once max_size is exceeded
AppendEvicting(cached_frames, new_frame, max_size) ==
    IF Len(cached_frames) + 1 > max_size
    THEN Tail(Append(cached_frames, new_frame))
    ELSE Append(cached_frames, new_frame)

RECURSIVE InitialiseCache(_, _, _)
\* lines 143-173, from frame i on: the loop of the first update, which ends as
\* soon as the cache holds max_size frames
InitialiseCache(c, all_frames, i) ==
    IF i > Len(all_frames) THEN c
    ELSE IF all_frames[i].image = NoImage \/ ~ShouldAddFrame(c, all_frames[i])
    THEN InitialiseCache(c, all_frames, i + 1)
    ELSE IF Len(c.cached_frames) + 1 >= c.max_size
    THEN [c EXCEPT !.cached_frames = Append(@, all_frames[i])]
    ELSE InitialiseCache([c EXCEPT !.cached_frames = Append(@, all_frames[i])],
                         all_frames, i + 1)

RECURSIVE ExtendCache(_, _, _)
\* lines 187-221, from frame i on: the loop of a later update over the frames
\* after last_check_time
ExtendCache(c, all_frames, i) ==
    IF i > Len(all_frames) THEN c
    ELSE IF \/ (c.last_check_time # None
                   /\ all_frames[i].timestamp <= c.last_check_time)
            \/ all_frames[i].image = NoImage
            \/ ~ShouldAddFrame(c, all_frames[i])
    THEN ExtendCache(c, all_frames, i + 1)
    ELSE ExtendCache([c EXCEPT !.cached_frames =
                         AppendEvicting(@, all_frames[i], c.max_size)],
                     all_frames, i + 1)

\* cached_frames[-max_size:] when the list is longer than max_size
KeepLatest(cached_frames, max_size) ==
    IF Len(cached_frames) > max_size
    THEN SubSeq(cached_frames, Len(cached_frames) - max_size + 1, Len(cached_frames))
    ELSE cached_frames

\* update(storage), all_frames being the stored frames sorted by timestamp
UpdateCache(c, all_frames) ==
    IF all_frames = <<>> THEN c
    ELSE IF c.cached_frames = <<>>
    THEN LET kept == KeepLatest(InitialiseCache(c, all_frames, 1).cached_frames,
                                c.max_size)
         IN  [c EXCEPT !.cached_frames = kept,
                       !.last_check_time = IF kept # <<>>
                                           THEN kept[Len(kept)].timestamp ELSE @]
    ELSE [ExtendCache(c, all_frames, 1) EXCEPT
             !.last_check_time = all_frames[Len(all_frames)].timestamp]

IdleCache ==
    /\ frame_cache = FrameCache(1, 3)
    /\ storage = <<>>
    /\ updated = [count |-> 0, stored |-> 0]

\* Threads on one stream (video_chunk_writer.py): no call has been made
NoCalls == [lock |-> "free", th |-> <<>>, done |-> <<>>, n |-> 0]

\* cli_main.py: _record_thread is None (0) and no recording thread was started
NoRecording == [record_thread |-> 0, threads |-> <<>>, commands |-> 0, quit |-> FALSE]

IdleLater ==
    /\ calls = NoCalls
    /\ repl = NoRecording

IdleExtras ==
    /\ IdleIngest
    /\ IdleStop
    /\ IdleQuery
    /\ IdleCache
    /\ IdleLater

----------------------------------------------------------------------------
(* Writer specification: one writer, any constructor arguments, any sequence *)
(* of write_frame and close calls with any outcome.                          *)

\* One history entry per write_frame call: what the writer held on entry,
\* whether the call spawned a process, and what it returned.
WriteEntry(before, ps, r) ==
    [op |-> "write",
     hadProc |-> before.ffmpeg_process # NoProc,
     fcBefore |-> before.frame_count,
     opened |-> r.opened,
     created |-> r.created,
     proc |-> IF r.created THEN Len(r.procs) ELSE before.ffmpeg_process,
     pipedBefore |-> IF r.created \/ before.ffmpeg_process = NoProc THEN 0
                     ELSE ps[before.ffmpeg_process].piped,
     offset |-> r.offset]

IdleWriter ==
    /\ wargs = [fps |-> DEFAULT_FPS, chunk_duration |-> 1, ffmpeg |-> TRUE]
    /\ w = VideoChunkWriter("screen", <<"monitor", 0>>, wargs.fps, wargs.chunk_duration,
                            wargs.ffmpeg)
    /\ wlog = <<>>

InitWriter ==
    /\ IdleExtras
    /\ now = 0
    /\ procs = <<>>
    /\ wargs \in [fps : FpsArgs, chunk_duration : DurationArgs, ffmpeg : BOOLEAN]
    /\ w = VideoChunkWriter("screen", <<"monitor", 0>>, wargs.fps, wargs.chunk_duration,
                            wargs.ffmpeg)
    /\ wlog = <<>>
    /\ IdleDetector
    /\ IdleLance
    /\ IdleCoordinator

WWriteFrame ==
    /\ Len(wlog) < MaxWrites
    /\ \E out \in WriteOutcomes :
        /\ out = "spawn_fail" => NeedsNewChunk(w) /\ w.ffmpeg_path
        /\ LET r == WriteFrame(w, procs, now, out)
           IN  /\ w' = r.w
               /\ procs' = r.procs
               /\ wlog' = Append(wlog, WriteEntry(w, procs, r))
    /\ UNCHANGED <<xvars, now, wargs, dvars, lvars, rvars>>

WClose ==
    /\ Len(wlog) < MaxWrites
    /\ w.ffmpeg_process # NoProc
    /\ LET r == CloseWriter(w, procs)
       IN  w' = r.w /\ procs' = r.procs
    /\ wlog' = Append(wlog, [op |-> "close"])
    /\ UNCHANGED <<xvars, now, wargs, dvars, lvars, rvars>>

WClockTick ==
    /\ now < MaxClock
    /\ now' = now + 1
    /\ UNCHANGED <<xvars, procs, wvars, dvars, lvars, rvars>>

NextWriter == WWriteFrame \/ WClose \/ WClockTick

SpecWriter == InitWriter /\ [][NextWriter]_vars

IsWrite(i) == wlog[i].op = "write"
Succeeded(i) == IsWrite(i) /\ wlog[i].offset # None

\* C2: on every writer, a successful write_frame returns the number of frames
\* already piped into the FFmpeg process of its chunk, which is also the number
\* of earlier successful writes into that chunk: the offsets of a chunk are
\* 0, 1, 2, ... in write order, whatever writes failed in between.
C2_OffsetsCountPipedFrames ==
    \A i \in DOMAIN wlog :
        Succeeded(i) =>
            /\ wlog[i].offset = wlog[i].pipedBefore
            /\ wlog[i].offset =
                   Cardinality({j \in 1..(i - 1) :
                                  Succeeded(j) /\ wlog[j].proc = wlog[i].proc})
            /\ procs[wlog[i].proc].piped =
                   Cardinality({j \in DOMAIN wlog :
                                  Succeeded(j) /\ wlog[j].proc = wlog[i].proc})

\* a failed write, later a chunk holding two frames, and a second chunk
C2_Witness ==
    \E i, j, k \in DOMAIN wlog :
        /\ i < j /\ j < k
        /\ IsWrite(i) /\ wlog[i].offset = None
        /\ Succeeded(j) /\ wlog[j].offset = 1
        /\ Succeeded(k) /\ wlog[k].proc # wlog[j].proc /\ wlog[k].offset = 0

\* the frame budget of a chunk, from the constructor arguments
BudgetOf(a) ==
    (Min(IF a.fps > 0 THEN a.fps ELSE DEFAULT_FPS, MAX_FPS) * a.chunk_duration) \div 10

OnlyGoodWritesUpTo(i) == \A j \in 1..i : Succeeded(j)

\* C3, with the budget as the code computes it: a write opens a new chunk
\* exactly when the writer holds no open FFmpeg process (first write, after a
\* failed spawn, a broken pipe or a close) or the current chunk already holds
\* N frames, where
\* N = int(min(fps if fps > 0 else 1.0, 30.0) * chunk_duration); in a run of
\* successful writes with N >= 1, frame N-1 is the last of chunk k and frame N
\* starts chunk k+1 at offset 0.
C3_RolloverAtBudget ==
    \A i \in DOMAIN wlog :
        IsWrite(i) =>
            /\ wlog[i].opened <=> (~wlog[i].hadProc \/ wlog[i].fcBefore >= BudgetOf(wargs))
            /\ (OnlyGoodWritesUpTo(i) /\ BudgetOf(wargs) >= 1) =>
                   /\ wlog[i].proc = ((i - 1) \div BudgetOf(wargs)) + 1
                   /\ wlog[i].offset = (i - 1) % BudgetOf(wargs)

\* fps 1.0, chunk_duration 3, four good writes: offsets 0,1,2 in the first
\* chunk, offset 0 in the second
C3_Witness ==
    /\ wargs.fps = 10 /\ wargs.chunk_duration = 3
    /\ Len(wlog) = 4 /\ OnlyGoodWritesUpTo(4)
    /\ wlog[3].proc = 1 /\ wlog[3].offset = 2
    /\ wlog[4].proc = 2 /\ wlog[4].offset = 0 /\ wlog[4].opened

\* C3, read literally: a new chunk is opened exactly on the first write and when
\* frame_count >= fps * chunk_duration, for the fps and chunk_duration given.
C3_Original ==
    \A i \in DOMAIN wlog :
        IsWrite(i) =>
            (wlog[i].opened <=>
                \/ \A j \in 1..(i - 1) : ~IsWrite(j)
                \/ wlog[i].fcBefore * 10 >= wargs.fps * wargs.chunk_duration)

\* the next write_frame call after call i, if there is one
NextWriteAfter(i) ==
    IF \E j \in DOMAIN wlog : j > i /\ IsWrite(j)
    THEN CHOOSE j \in DOMAIN wlog :
            /\ j > i /\ IsWrite(j)
            /\ \A k \in DOMAIN wlog : (k > i /\ IsWrite(k)) => j <= k
    ELSE 0

\* C20: after a failed write_frame (FFmpeg not spawned, pipe broken, or any
\* other error while encoding or writing) the next write_frame on the writer
\* goes to open a fresh chunk, and when that write succeeds it is the first
\* frame (offset 0) of a process spawned by that very call, never a further
\* frame of the chunk in which the failure occurred.
C20_FailedWriteOpensFreshChunk ==
    \A i \in DOMAIN wlog :
        (IsWrite(i) /\ wlog[i].offset = None /\ NextWriteAfter(i) # 0) =>
            LET n == NextWriteAfter(i)
            IN  /\ wlog[n].opened
                /\ Succeeded(n) => (wlog[n].created /\ wlog[n].offset = 0)

\* C29: any two chunks opened in a session have distinct file paths, so that
\* opening a chunk never overwrites the file of an earlier one (FFmpeg is
\* started with -y).
C29_ChunkPathsDistinct ==
    \A p, q \in DOMAIN procs : p # q => procs[p].path # procs[q].path

----------------------------------------------------------------------------
(* Threads specification: several threads call write_screen_frame and      *)
(* close on the writer of one monitor.  write_frame and close run their     *)
(* bodies under the writer's lock; write_screen_frame reads                 *)
(* get_current_chunk_path() after write_frame has returned, that is after   *)
(* the lock was released.                                                   *)

MaxCalls == 3       \* write_screen_frame / close calls made by the threads
NThreads == 2       \* threads sharing the writer

Threads == 1..NThreads
Unlocked == 0       \* nobody holds the writer's _lock

ThreadIdle == [pc |-> "idle", offset |-> None, proc |-> NoProc]

RECURSIVE IdleThreads(_)
IdleThreads(n) == IF n = 0 THEN <<>> ELSE Append(IdleThreads(n - 1), ThreadIdle)

\* frames per chunk 1 or 2, FFmpeg present
ThreadWriterArgs == {[fps |-> f, chunk_duration |-> 1, ffmpeg |-> TRUE] : f \in {10, 20}}

InitThreads ==
    /\ IdleIngest
    /\ IdleStop
    /\ IdleQuery
    /\ IdleCache
    /\ repl = NoRecording
    /\ calls = [lock |-> Unlocked, th |-> IdleThreads(NThreads), done |-> <<>>, n |-> 0]
    /\ now = 0
    /\ procs = <<>>
    /\ wargs \in ThreadWriterArgs
    /\ w = VideoChunkWriter("screen", <<"monitor", 0>>, wargs.fps, wargs.chunk_duration,
                            wargs.ffmpeg)
    /\ wlog = <<>>
    /\ IdleDetector
    /\ IdleLance
    /\ IdleCoordinator

\* a thread calls write_frame or close and takes the writer's lock (with self._lock)
KEnter(t, op) ==
    /\ calls.n < MaxCalls
    /\ calls.th[t].pc = "idle"
    /\ calls.lock = Unlocked
    /\ calls' = [calls EXCEPT !.lock = t, !.n = @ + 1,
                              !.th[t] = [pc |-> op, offset |-> None, proc |-> NoProc]]
    /\ UNCHANGED <<ivars, svars, qvars, cvars, repl, now, procs, wvars, dvars, lvars, rvars>>

\* the body of write_frame, then the lock is released; the thread remembers the
\* offset returned to write_screen_frame (and, for the record, the process the
\* frame went into)
KWrite(t) ==
    /\ calls.lock = t
    /\ calls.th[t].pc = "write"
    /\ \E out \in {"ok", "broken_pipe"} :
        LET r == WriteFrame(w, procs, now, out)
        IN  /\ w' = r.w
            /\ procs' = r.procs
            /\ calls' = [calls EXCEPT !.lock = Unlocked,
                           !.th[t] = IF r.offset = None THEN ThreadIdle
                                     ELSE [pc |-> "written", offset |-> r.offset,
                                           proc |-> r.w.ffmpeg_process]]
    /\ UNCHANGED <<ivars, svars, qvars, cvars, repl, now, wargs, wlog, dvars, lvars, rvars>>

\* write_screen_frame: return (writer.get_current_chunk_path(), offset)
KReturn(t) ==
    /\ calls.th[t].pc = "written"
    /\ calls' = [calls EXCEPT !.th[t] = ThreadIdle,
                   !.done = Append(@, [path |-> w.current_chunk_path,
                                       offset |-> calls.th[t].offset,
                                       proc |-> calls.th[t].proc])]
    /\ UNCHANGED <<ivars, svars, qvars, cvars, repl, now, procs, wvars, dvars, lvars, rvars>>

\* the body of close(), then the lock is released
KClose(t) ==
    /\ calls.lock = t
    /\ calls.th[t].pc = "close"
    /\ LET r == CloseWriter(w, procs)
       IN  w' = r.w /\ procs' = r.procs
    /\ calls' = [calls EXCEPT !.lock = Unlocked, !.th[t] = ThreadIdle]
    /\ UNCHANGED <<ivars, svars, qvars, cvars, repl, now, wargs, wlog, dvars, lvars, rvars>>

KClockTick ==
    /\ now < MaxClock
    /\ now' = now + 1
    /\ UNCHANGED <<xvars, procs, wvars, dvars, lvars, rvars>>

NextThreads ==
    \/ \E t \in Threads : KEnter(t, "write")
    \/ \E t \in Threads : KEnter(t, "close")
    \/ \E t \in Threads : KWrite(t)
    \/ \E t \in Threads : KReturn(t)
    \/ \E t \in Threads : KClose(t)
    \/ KClockTick

SpecThreads == InitThreads /\ [][NextThreads]_vars

\* threads inside the body of write_frame or close
InBody == {t \in DOMAIN calls.th : calls.th[t].pc \in {"write", "close"}}

WritesExclusive == Cardinality(InBody) <= 1

PairsDistinct ==
    \A i, j \in DOMAIN calls.done :
        i # j => <<calls.done[i].path, calls.done[i].offset>>
                 # <<calls.done[j].path, calls.done[j].offset>>

PairNamesChunk ==
    \A i \in DOMAIN calls.done : calls.done[i].path = procs[calls.done[i].proc].path

\* C26: under any interleaving of write and close calls on one stream, writes
\* are mutually exclusive, no two frames get the same (chunk_path,
\* offset_index) pair, and the pair returned for a frame names the chunk file
\* the frame was piped into.
C26_ConcurrentWritesConsistent ==
    /\ WritesExclusive
    /\ PairsDistinct
    /\ PairNamesChunk

----------------------------------------------------------------------------
(* Detector specification: one FrameDiffDetector and one SimpleFrameFilter,  *)
(* any thresholds, frames submitted on any stream in any order.              *)

\* (screen_threshold, window_threshold, use_max_average) of the detector
DetectorArgs == { <<6, 3, TRUE>>, <<3, 6, FALSE>>, <<0, 0, TRUE>> }
SimpleArgs == {4}

\* What is recorded of a decision: the stream and the frame, whether it was
\* the first frame ever submitted on the stream, the reference the stream
\* held on entry, and the answer.
Decision(stream, img, hadPrev, prevImg, prevHash, score, accepted) ==
    [valid |-> TRUE, stream |-> stream, img |-> img, hash |-> ImageHash(img),
     first |-> stream \notin seen,
     hadPrev |-> hadPrev, prevImg |-> prevImg, prevHash |-> prevHash,
     score |-> score, accepted |-> accepted]

InitDiff ==
    /\ IdleExtras
    /\ \E a \in DetectorArgs : det = FrameDiffDetector(a[1], a[2], a[3])
    /\ \E t \in SimpleArgs : simple = SimpleFrameFilter(t)
    /\ seen = {}
    /\ dlast = [k \in StreamKinds |-> NoDecision]
    /\ nchecks = 0
    /\ now = 0 /\ procs = <<>>
    /\ IdleWriter
    /\ IdleLance
    /\ IdleCoordinator

DCheckScreen ==
    /\ nchecks < MaxChecks
    /\ \E m \in Monitors, img \in Images :
        LET r == CheckScreenDiff(det, m, img, ImageHash(img))
            had == m \in DOMAIN det.screen_states
            old == IF had THEN det.screen_states[m] ELSE ScreenDiffState
        IN  /\ det' = r.det
            /\ dlast' = [dlast EXCEPT !["screen"] =
                   Decision(<<"screen", m>>, img, old.previous_image # NoImage,
                            old.previous_image, old.previous_hash,
                            r.diff_score, r.should_store)]
            /\ seen' = seen \cup {<<"screen", m>>}
    /\ nchecks' = nchecks + 1
    /\ UNCHANGED <<xvars, simple, shared, wvars, lvars, rvars>>

DCheckWindow ==
    /\ nchecks < MaxChecks
    /\ \E win \in WindowPool, img \in Images :
        LET r == CheckWindowDiff(det, win, img, ImageHash(img))
            had == KeyOf(win) \in DOMAIN det.window_states
            old == IF had THEN det.window_states[KeyOf(win)]
                   ELSE WindowDiffState(win.app_name, win.window_name)
        IN  /\ det' = r.det
            /\ dlast' = [dlast EXCEPT !["window"] =
                   Decision(<<"window", win>>, img, old.previous_image # NoImage,
                            old.previous_image, old.previous_hash,
                            r.diff_score, r.should_store)]
            /\ seen' = seen \cup {<<"window", win>>}
    /\ nchecks' = nchecks + 1
    /\ UNCHANGED <<xvars, simple, shared, wvars, lvars, rvars>>

DShouldKeep ==
    /\ nchecks < MaxChecks
    /\ \E img \in Images :
        LET r == ShouldKeep(simple, img)
        IN  /\ simple' = r.filter
            /\ dlast' = [dlast EXCEPT !["simple"] =
                   Decision(<<"simple">>, img, simple.last_frame_image # NoImage,
                            simple.last_frame_image, 0,
                            NormalizedRmsDiff(simple.last_frame_image, img), r.keep)]
            /\ seen' = seen \cup {<<"simple">>}
    /\ nchecks' = nchecks + 1
    /\ UNCHANGED <<xvars, det, shared, wvars, lvars, rvars>>

DCleanupStaleWindows ==
    /\ \E active \in SUBSET {KeyOf(win) : win \in WindowPool} :
        /\ det' = CleanupStaleWindows(det, active)
        /\ DOMAIN det'.window_states # DOMAIN det.window_states
    /\ UNCHANGED <<xvars, simple, seen, dlast, nchecks, shared, wvars, lvars, rvars>>

DResetState ==
    /\ \E m \in Monitors \cup {None} :
        /\ det' = ResetState(det, m)
        /\ \/ DOMAIN det'.window_states # DOMAIN det.window_states
           \/ DOMAIN det'.screen_states # DOMAIN det.screen_states
    /\ UNCHANGED <<xvars, simple, seen, dlast, nchecks, shared, wvars, lvars, rvars>>

NextDiff ==
    DCheckScreen \/ DCheckWindow \/ DShouldKeep \/ DCleanupStaleWindows \/ DResetState

SpecDiff == InitDiff /\ [][NextDiff]_vars

\* C5: the first frame ever submitted on a stream (a monitor, an
\* (app, title, pid) window, the simple-mode filter) is accepted, whatever its
\* content and whatever the other streams hold.
C5_FirstFrameAccepted ==
    \A k \in StreamKinds :
        (dlast[k].valid /\ dlast[k].first) => dlast[k].accepted

\* two windows that differ in pid only: the second one's first frame carries
\* the image the first one already stored, under a threshold it would not pass
C5_Witness ==
    /\ dlast["window"].valid /\ dlast["window"].first /\ dlast["window"].accepted
    /\ det.window_threshold > 0
    /\ \E win \in WindowPool :
        /\ <<"window", win>> # dlast["window"].stream
        /\ KeyOf(win) \in DOMAIN det.window_states
        /\ det.window_states[KeyOf(win)].previous_image = dlast["window"].img

\* C6: a non-first frame whose fingerprint equals the one stored for the
\* stream's last accepted frame has combined diff 0 and is rejected, for every
\* configured threshold.
C6_EqualHashRejected ==
    \A k \in {"screen", "window"} :
        (dlast[k].valid /\ dlast[k].hadPrev /\ dlast[k].hash = dlast[k].prevHash)
            => (dlast[k].score = 0 /\ ~dlast[k].accepted)

ThresholdOf(k) == IF k = "screen" THEN det.screen_threshold ELSE det.window_threshold

\* C7: a non-first frame is accepted iff its combined diff (0 on equal
\* fingerprints, else the histogram/SSIM average against the stream's last
\* accepted frame) is >= the threshold of its stream kind; equality accepts.
C7_AcceptIffAtLeastThreshold ==
    \A k \in {"screen", "window"} :
        (dlast[k].valid /\ dlast[k].hadPrev) =>
            /\ dlast[k].score =
                  (IF dlast[k].hash = dlast[k].prevHash THEN 0
                   ELSE CombinedDiff(dlast[k].img, dlast[k].prevImg))
            /\ dlast[k].accepted <=> (dlast[k].score >= ThresholdOf(k))

\* on a screen stream and on a window stream, a frame whose combined diff
\* equals the (positive) threshold has been accepted
C7_Witness ==
    \A k \in {"screen", "window"} :
        /\ dlast[k].valid /\ dlast[k].hadPrev
        /\ dlast[k].score = ThresholdOf(k) /\ ThresholdOf(k) > 0
        /\ dlast[k].accepted

\* the reference (image, fingerprint) a stream state holds
ReferenceOf(st) == <<st.previous_image, st.previous_hash>>

\* the reference of stream k changed in this step only through this step's
\* accepted decision d on that stream
ChangedByAccept(before, after, d, stream) ==
    ReferenceOf(after) # ReferenceOf(before) =>
        /\ d.valid /\ d.stream = stream /\ d.accepted
        /\ <<d.prevImg, d.prevHash>> = ReferenceOf(before)
        /\ ReferenceOf(after) = <<d.img, d.hash>>

\* after a decision the stream holds the decided frame when it was accepted
\* and the reference it held on entry when it was rejected
HoldsLastAccepted(states, key, d) ==
    key \in DOMAIN states =>
        ReferenceOf(states[key]) =
            IF d.accepted THEN <<d.img, d.hash>> ELSE <<d.prevImg, d.prevHash>>

\* C25: the reference image and fingerprint of a monitor or window stream
\* change only through an accepted frame of that stream, which becomes the new
\* reference; a rejected frame leaves the reference it was compared with, and
\* a frame of one stream leaves the references of the other streams alone.
C25_ReferenceChangesOnAcceptOnly ==
    [][ /\ \A m \in (DOMAIN det.screen_states) \cap (DOMAIN det'.screen_states) :
              ChangedByAccept(det.screen_states[m], det'.screen_states[m],
                              dlast'["screen"], <<"screen", m>>)
        /\ \A win \in WindowPool :
              KeyOf(win) \in (DOMAIN det.window_states) \cap (DOMAIN det'.window_states) =>
                  ChangedByAccept(det.window_states[KeyOf(win)],
                                  det'.window_states[KeyOf(win)],
                                  dlast'["window"], <<"window", win>>)
        /\ dlast'["screen"] # dlast["screen"] =>
              HoldsLastAccepted(det'.screen_states, dlast'["screen"].stream[2],
                                dlast'["screen"])
        /\ dlast'["window"] # dlast["window"] =>
              HoldsLastAccepted(det'.window_states, KeyOf(dlast'["window"].stream[2]),
                                dlast'["window"])
      ]_vars

\* a monitor's frame that differs from the reference was rejected and the
\* reference is still the earlier frame, while the other monitor and a window
\* hold references of their own
C25_Witness ==
    /\ dlast["screen"].valid /\ dlast["screen"].hadPrev /\ ~dlast["screen"].accepted
    /\ dlast["screen"].img # dlast["screen"].prevImg
    /\ dlast["screen"].hash # dlast["screen"].prevHash
    /\ DOMAIN det.screen_states = Monitors
    /\ det.screen_states[dlast["screen"].stream[2]].previous_image = dlast["screen"].prevImg
    /\ \E m \in Monitors : det.screen_states[m].previous_image = dlast["screen"].img
    /\ DOMAIN det.window_states # {}

----------------------------------------------------------------------------
(* Vector-store specification: any sequence of store_frame and              *)
(* store_frames_batch calls, with any of the failures the code catches.     *)

FrameIds == {"f1", "f2"}
\* a row, reduced to its frame_id and the write it came from
LanceRows == [frame_id : FrameIds, version : 1..MaxStores]
Batches == {<<>>} \cup {<<a>> : a \in LanceRows} \cup {<<a, b>> : a, b \in LanceRows}

InitLance ==
    /\ IdleExtras
    /\ IdleLance
    /\ now = 0 /\ procs = <<>>
    /\ IdleWriter
    /\ IdleDetector
    /\ IdleCoordinator

LStoreFrame ==
    /\ lcalls < MaxStores
    /\ \E id \in FrameIds, out \in StoreOutcomes :
        LET r == StoreFrame(lance, [frame_id |-> id, version |-> lcalls + 1], out)
        IN  /\ out \in {"check_fail", "delete_fail"} => lance.table
            /\ lance' = r.store
            /\ written' = IF r.ok THEN written \cup {id} ELSE written
    /\ lcalls' = lcalls + 1
    /\ UNCHANGED <<xvars, shared, wvars, dvars, rvars>>

LStoreFramesBatch ==
    /\ lcalls < MaxStores
    /\ \E batch \in Batches, out \in {"ok", "save_fail", "add_fail"},
          check_fail \in SUBSET FrameIds, delete_fail \in SUBSET FrameIds :
        LET ids == {batch[i].frame_id : i \in DOMAIN batch}
            r == StoreFramesBatch(lance, batch, out, check_fail, delete_fail)
        IN  /\ \A i \in DOMAIN batch : batch[i].version = lcalls + 1
            /\ check_fail \subseteq ids /\ delete_fail \subseteq ids \ check_fail
            /\ (check_fail # {} \/ delete_fail # {}) => lance.table
            /\ lance' = r.store
            /\ written' = IF r.ok THEN written \cup ids ELSE written
    /\ lcalls' = lcalls + 1
    /\ UNCHANGED <<xvars, shared, wvars, dvars, rvars>>

NextLance == LStoreFrame \/ LStoreFramesBatch

SpecLance == InitLance /\ [][NextLance]_vars

\* C8: after any sequence of store_frame and store_frames_batch calls (the
\* same frame_id in several calls or twice in one batch, a failing existence
\* check or delete), the table holds exactly one row for each frame_id written.
C8_OneRowPerFrameId ==
    \A id \in FrameIds :
        Cardinality(RowsOf(lance.rows, id)) = (IF id \in written THEN 1 ELSE 0)

----------------------------------------------------------------------------
(* Recording specification: one coordinator, run_continuous at fps 1.0 (a    *)
(* tick per second), any screen content and window set per tick, stop() at   *)
(* any time; one failure at most is met in a session.                        *)

RecordingConfigs ==
    { RecordingConfig(0, 1, FALSE, FALSE, TRUE),
      RecordingConfig(1, 2, TRUE, TRUE, TRUE),
      RecordingConfig(0, 2, TRUE, FALSE, FALSE) }

ScreenImages == {1, 3}

\* the windows of a capture, in the capturer's order
WindowLists ==
    {<<>>} \cup {<<a>> : a \in WindowPool}
           \cup {p \in {<<a, b>> : a, b \in WindowPool} :
                    p[1].process_id < p[2].process_id}

\* the coordinator as a tick finds it
Session ==
    [det |-> det, vm |-> vm, procs |-> procs, db |-> db, stats |-> stats,
     ids |-> generated, hist |-> hist,
     screen_diff_result |-> [should_store |-> FALSE, diff_score |-> 0],
     result |-> [frame_id |-> NoId, sub_frame_ids |-> <<>>]]

\* the coordinator as a tick leaves it
Adopt(S) ==
    /\ det' = S.det
    /\ vm' = S.vm
    /\ procs' = S.procs
    /\ db' = S.db
    /\ stats' = S.stats
    /\ generated' = S.ids
    /\ hist' = S.hist

InitRec ==
    /\ IdleExtras
    /\ config \in RecordingConfigs
    /\ NewCoordinator
    /\ simple = SimpleFrameFilter(6)
    /\ seen = {}
    /\ dlast = [k \in StreamKinds |-> NoDecision]
    /\ nchecks = 0
    /\ now = 0 /\ procs = <<>>
    /\ IdleWriter
    /\ IdleLance

\* run_continuous is entered
RStart ==
    /\ ~is_running /\ iteration = 0
    /\ is_running' = TRUE
    /\ UNCHANGED <<xvars, shared, wvars, dvars, lvars,
                   config, vm, db, stats, generated, hist, iteration, faulted>>

\* one iteration of run_continuous: capture_and_process, then the sleep to
\* the next second
RTick ==
    /\ is_running /\ iteration < MaxTicks
    /\ \E img \in ScreenImages, windows \in WindowLists, fault \in Faults :
        /\ fault # "none" => ~faulted
        /\ faulted' = (faulted \/ fault # "none")
        /\ Adopt(CaptureAndProcess(Session, config,
                                   ScreenObject(config, now, img, windows), fault))
    /\ iteration' = iteration + 1
    /\ now' = now + 1
    /\ UNCHANGED <<xvars, wvars, simple, seen, dlast, nchecks, lvars, config, is_running>>

\* stop(): the loop ends and every writer is closed
RStop ==
    /\ is_running
    /\ is_running' = FALSE
    /\ LET r == CloseAll(vm, procs)
       IN  vm' = r.vm /\ procs' = r.procs
    /\ UNCHANGED <<xvars, now, wvars, dvars, lvars,
                   config, db, stats, generated, hist, iteration, faulted>>

NextRec == RStart \/ RTick \/ RStop

SpecRec == InitRec /\ [][NextRec]_vars

\* C1: every frames row the coordinator writes belongs to a frame whose chunk
\* write succeeded, the chunk row of the file holding the frame was inserted
\* before it, and its (video_chunk_id, offset_index) is that chunk row's id and
\* the frame's position in the file.
C1_FrameRowsPointAtTheirChunk ==
    \A f \in DOMAIN hist.inserted :
        /\ f \in DOMAIN hist.truth
        /\ hist.row[hist.truth[f].proc] >= 1
        /\ hist.inserted[f].video_chunk_id = hist.row[hist.truth[f].proc]
        /\ hist.inserted[f].offset_index = hist.truth[f].offset

\* C4: between ticks and after shutdown, the frame_count of every
\* video_chunks / window_chunks row is the number of frames / sub_frames rows
\* that reference it.
C4_FrameCountMatchesRows ==
    /\ \A i \in DOMAIN db.video_chunks :
          db.video_chunks[i].frame_count =
              Cardinality({f \in DOMAIN db.frames :
                             db.frames[f].video_chunk_id = db.video_chunks[i].id})
    /\ \A i \in DOMAIN db.window_chunks :
          db.window_chunks[i].frame_count =
              Cardinality({f \in DOMAIN db.sub_frames :
                             db.sub_frames[f].window_chunk_id = db.window_chunks[i].id})

FrameColumns(r) ==
    <<r.timestamp, r.video_chunk_id, r.offset_index, r.monitor_id, r.image_hash>>

\* C10: an inserted frames row keeps its timestamp, (video_chunk_id,
\* offset_index), monitor_id and image_hash, also when OCR text is attached.
C10_FrameColumnsKept ==
    \A f \in DOMAIN hist.inserted :
        /\ f \in DOMAIN db.frames
        /\ FrameColumns(db.frames[f]) = FrameColumns(hist.inserted[f])

\* the frames the coordinator counted as stored: every frame id that went into
\* a chunk is counted once by stats.frames_stored
IsFrameId(id) == id[1] = "frame"

\* C21: when the relational-store write of an accepted frame's row fails, the
\* error counter is incremented, no OCR text is stored for the frame, the
\* frame is not counted as stored, and no mapping row references its frame_id.
C21_FailedFrameStoreSkipsRest ==
    \A f \in hist.failed :
        /\ stats.errors >= 1
        /\ \A i \in DOMAIN db.ocr_text : db.ocr_text[i].frame_id # f
        /\ stats.frames_stored <=
              Cardinality({g \in DOMAIN hist.truth : IsFrameId(g)} \ hist.failed)
        /\ \A m \in db.mapping : m[1] # f

IsWindowProc(p) == procs[p].path[1] = "window"

\* the window writer that holds process p, if any
HoldersOf(mgr, p) == {k \in DOMAIN mgr.window_writers : mgr.window_writers[k].ffmpeg_process = p}

\* C22: after every tick the window writers in the map belong to window keys
\* of that tick's capture and every open window FFmpeg process is held by a
\* writer in the map (a writer of an absent key was closed and removed); the
\* tick keeps the writers of the windows still present, and a process such a
\* writer still holds after the tick was not finished.
C22_WindowWritersFollowCapture ==
    [][ /\ DOMAIN vm'.window_writers \subseteq hist'.active_window_keys
        /\ \A p \in DOMAIN procs' :
              (procs'[p].open /\ procs'[p].path[1] = "window") => HoldersOf(vm', p) # {}
        /\ iteration' = iteration + 1 =>
              \A k \in (DOMAIN vm.window_writers) \cap hist'.active_window_keys :
                  /\ k \in DOMAIN vm'.window_writers
                  /\ LET before == vm.window_writers[k]
                         after == vm'.window_writers[k]
                     IN  (before.ffmpeg_process # NoProc
                             /\ after.ffmpeg_process = before.ffmpeg_process) =>
                           /\ procs'[before.ffmpeg_process].open
                           /\ after.frame_count >= before.frame_count
      ]_vars

\* C23: after every tick the detector holds window state only for the window
\* keys of that tick's capture (the state of a window no longer visible has
\* been purged).
C23_WindowStatesFollowCapture ==
    DOMAIN det.window_states \subseteq hist.active_window_keys

\* C24: every frame_subframe_mapping row references a frame_id whose frames
\* row exists and a sub_frame_id whose sub_frames row exists.
C24_MappingsReferenceRows ==
    \A m \in db.mapping : m[1] \in DOMAIN db.frames /\ m[2] \in DOMAIN db.sub_frames

\* C27: every sub_frames row references a window_chunks row, and that row is
\* the row of a chunk file of the sub-frame's own (app_name, window_name,
\* process_id) stream.
C27_SubFramesPointAtOwnStream ==
    \A sf \in DOMAIN db.sub_frames :
        LET r == db.sub_frames[sf]
        IN  /\ r.window_chunk_id \in DOMAIN db.window_chunks
            /\ db.window_chunks[r.window_chunk_id].file_path[2] =
                  SafeId("window", WindowKey(r.app_name, r.window_name, r.process_id))

\* two ticks: a window of the first capture is gone in the second, its process
\* is finished and held by no writer, another window's process is still open
C22_Witness ==
    /\ iteration = 2 /\ is_running /\ ~faulted
    /\ hist.active_window_keys # {}
    /\ \E p \in DOMAIN procs : IsWindowProc(p) /\ ~procs[p].open /\ HoldersOf(vm, p) = {}
    /\ \E p \in DOMAIN procs : IsWindowProc(p) /\ procs[p].open /\ HoldersOf(vm, p) # {}

----------------------------------------------------------------------------
(* Relational-store specification: the SQLiteStorage methods called in any   *)
(* order with any arguments (main.py's OCR worker and the rebuild script     *)
(* call store_frame_with_ocr once per task or image, the coordinator calls   *)
(* the others), each call succeeding or raising before its commit.           *)

SqlFrameIds == {<<"frame", 1>>, <<"frame", 2>>}
SqlTimestamps == {0, 1}
OcrTexts == {"", "txt"}

InitSql ==
    /\ IdleExtras
    /\ IdleCoordinator
    /\ now = 0 /\ procs = <<>>
    /\ IdleWriter
    /\ IdleDetector
    /\ IdleLance

QStoreFrameWithOcr ==
    /\ Len(db.ocr_text) < MaxOcrRows
    /\ \E frame_id \in SqlFrameIds, timestamp \in SqlTimestamps,
          ocr_text \in OcrTexts, ok \in BOOLEAN :
        db' = StoreFrameWithOcr(db, frame_id, timestamp, <<"image", frame_id>>,
                                ocr_text, <<"default">>, ok)
    /\ UNCHANGED <<xvars, shared, wvars, dvars, lvars,
                   config, vm, stats, generated, hist, is_running, iteration, faulted>>

QInsertVideoChunk ==
    /\ Len(db.video_chunks) < MaxChunkRows
    /\ \E ok \in BOOLEAN :
        db' = InsertVideoChunk(db, <<"screen", <<"monitor", 0>>, Len(db.video_chunks)>>,
                               0, <<"monitor", 0>>, DEFAULT_FPS, ok).db
    /\ UNCHANGED <<xvars, shared, wvars, dvars, lvars,
                   config, vm, stats, generated, hist, is_running, iteration, faulted>>

QStoreFrameWithVideoRef ==
    /\ \E frame_id \in SqlFrameIds, timestamp \in SqlTimestamps,
          video_chunk_id \in 0..Len(db.video_chunks), ok \in BOOLEAN :
        db' = StoreFrameWithVideoRef(db, frame_id, timestamp, video_chunk_id, 0, 0,
                                     ImageHash(1), <<"monitor", 0>>, ok)
    /\ UNCHANGED <<xvars, shared, wvars, dvars, lvars,
                   config, vm, stats, generated, hist, is_running, iteration, faulted>>

QUpdateChunkFrameCount ==
    /\ \E chunk_id \in 1..Len(db.video_chunks), frame_count \in 0..1, ok \in BOOLEAN :
        db' = UpdateChunkFrameCount(db, chunk_id, frame_count, "video", ok)
    /\ UNCHANGED <<xvars, shared, wvars, dvars, lvars,
                   config, vm, stats, generated, hist, is_running, iteration, faulted>>

NextSql ==
    QStoreFrameWithOcr \/ QInsertVideoChunk \/ QStoreFrameWithVideoRef
        \/ QUpdateChunkFrameCount

SpecSql == InitSql /\ [][NextSql]_vars

\* C9: after any sequence of frame and OCR writes, OCR being stored again for
\* a frame_id that already has text included, there is at most one ocr_text
\* row per frame_id.
C9_OneOcrRowPerFrame ==
    \A frame_id \in SqlFrameIds :
        Cardinality({i \in DOMAIN db.ocr_text :
                       db.ocr_text[i].frame_id = frame_id}) <= 1

----------------------------------------------------------------------------
(* Ingest specification: main_loop in vector mode with the OCR worker        *)
(* thread beside it; any capture result, any store and OCR outcome, Ctrl+C   *)
(* between two iterations.                                                   *)

MaxFrames == 4

InitIngest ==
    /\ now = 0 /\ procs = <<>>
    /\ IdleWriter
    /\ IdleLance
    /\ IdleCoordinator
    /\ det = FrameDiffDetector(6, 6, TRUE)
    /\ simple = SimpleFrameFilter(3)
    /\ seen = {}
    /\ dlast = [k \in StreamKinds |-> NoDecision]
    /\ nchecks = 0
    /\ USE_OCR \in BOOLEAN
    /\ ocr_queue = [items |-> <<>>, unfinished |-> 0]
    /\ ocr_thread_running = TRUE
    /\ worker = "check"
    /\ main = "loop"
    /\ at_stop = {}
    /\ enq = [valid |-> FALSE]
    /\ IdleStop
    /\ IdleQuery
    /\ IdleCache
    /\ IdleLater

\* one iteration of main_loop: capture_and_store_pipeline, then the sleep.
\* img = NoImage is capturer.capture() returning nothing; out is the outcome of
\* storage.store_frame for a frame_id never stored before.
ICapture ==
    /\ main = "loop" /\ now < MaxFrames
    /\ now' = now + 1
    /\ \E img \in {NoImage} \cup Images, out \in {"ok", "save_fail", "add_fail"},
          copy_ok \in BOOLEAN :
        LET k == ShouldKeep(simple, img)
            frame_id == now
            r == StoreFrame(lance, [frame_id |-> frame_id, version |-> 1], out)
            task == [frame_id |-> frame_id, timestamp |-> now, image |-> img]
            e == EnqueueOcrTask(ocr_queue, USE_OCR, task, copy_ok)
        IN  IF img = NoImage \/ ~k.keep
            THEN /\ out = "ok" /\ copy_ok
                 /\ simple' = (IF img = NoImage THEN simple ELSE k.filter)
                 /\ UNCHANGED <<kvars, lance, ocr_queue, enq, main>>
            ELSE /\ simple' = k.filter
                 /\ lance' = r.store
                 /\ IF r.ok /\ USE_OCR
                    THEN /\ ocr_queue' = e.queue
                         /\ main' = (IF e.blocked THEN "put" ELSE "loop")
                         /\ enq' = [valid |-> TRUE, frame_id |-> frame_id,
                                    full |-> Len(ocr_queue.items) >= OcrQueueMaxsize,
                                    before |-> ocr_queue.items,
                                    after |-> e.queue.items]
                    ELSE /\ copy_ok
                         /\ UNCHANGED <<kvars, ocr_queue, enq, main>>
    /\ UNCHANGED <<kvars, svars, qvars, cvars, procs, wvars, det, seen, dlast, nchecks, written, lcalls, rvars,
                   USE_OCR, ocr_thread_running, worker, at_stop>>

\* KeyboardInterrupt during the sleep: ocr_thread_running.clear()
IInterrupt ==
    /\ main = "loop"
    /\ ocr_thread_running' = FALSE
    /\ at_stop' = {ocr_queue.items[i].frame_id : i \in DOMAIN ocr_queue.items}
    /\ main' = "cleared"
    /\ UNCHANGED <<kvars, svars, qvars, cvars, shared, wvars, dvars, lvars, rvars, USE_OCR, ocr_queue, worker, enq>>

\* if not ocr_queue.empty(): ocr_queue.join(), which returns once every put
\* has had its task_done
IQueueJoin ==
    /\ \/ main = "cleared" /\ ocr_queue.items = <<>> /\ main' = "thread_join"
       \/ main = "cleared" /\ ocr_queue.items # <<>> /\ main' = "queue_join"
       \/ main = "queue_join" /\ ocr_queue.unfinished = 0 /\ main' = "thread_join"
    /\ UNCHANGED <<kvars, svars, qvars, cvars, shared, wvars, dvars, lvars, rvars,
                   USE_OCR, ocr_queue, ocr_thread_running, worker, at_stop, enq>>

\* ocr_thread.join(timeout=5.0), then sys.exit(0): the worker has returned, or
\* it is a daemon thread and ends with the process
IExit ==
    /\ main = "thread_join"
    /\ main' = "exited"
    /\ worker' = "stopped"
    /\ UNCHANGED <<kvars, svars, qvars, cvars, shared, wvars, dvars, lvars, rvars,
                   USE_OCR, ocr_queue, ocr_thread_running, at_stop, enq>>

\* while ocr_thread_running.is_set()
WCheck ==
    /\ worker = "check"
    /\ worker' = (IF ocr_thread_running THEN "get" ELSE "stopped")
    /\ UNCHANGED <<kvars, svars, qvars, cvars, shared, wvars, dvars, lvars, rvars,
                   USE_OCR, ocr_queue, ocr_thread_running, main, at_stop, enq>>

\* ocr_queue.get(timeout=1.0) and the rest of the loop body; on an empty
\* queue the get times out
WGet ==
    /\ worker = "get"
    /\ worker' = "check"
    /\ IF ocr_queue.items = <<>>
       THEN UNCHANGED <<kvars, ocr_queue, db>>
       ELSE \E out \in {"ok", "ocr_raise", "store_fail"} :
                LET r == OcrWorkerTask(ocr_queue, db, out)
                IN  ocr_queue' = r.queue /\ db' = r.db
    /\ UNCHANGED <<kvars, svars, qvars, cvars, shared, wvars, dvars, lvars,
                   config, vm, stats, generated, hist, is_running, iteration, faulted,
                   USE_OCR, ocr_thread_running, main, at_stop, enq>>

NextIngest == ICapture \/ IInterrupt \/ IQueueJoin \/ IExit \/ WCheck \/ WGet

SpecIngest == InitIngest /\ [][NextIngest]_vars

\* C11: in every state of the ingest pipeline, each frame_id held by the vector
\* store has a row in the frames table of the relational store.
C11_VectorFramesHaveRows ==
    \A i \in DOMAIN lance.rows : lance.rows[i].frame_id \in DOMAIN db.frames

\* C12: the OCR queue never holds more tasks than its maxsize, and an enqueue
\* attempted on a full queue returns without waiting, having dropped the new
\* task: the queued tasks and their order are as before, and the frame that
\* triggered it is in the vector store.
C12_FullQueueDropsNewTask ==
    /\ Len(ocr_queue.items) <= OcrQueueMaxsize
    /\ main # "put"
    /\ (enq.valid /\ enq.full) =>
          /\ enq.after = enq.before
          /\ RowsOf(lance.rows, enq.frame_id) # {}

\* an enqueue met a full queue, and the loop has run another iteration since
C12_Witness ==
    /\ enq.valid /\ enq.full
    /\ Len(enq.before) = OcrQueueMaxsize
    /\ now > enq.frame_id + 1
    /\ main = "loop"

\* C13: once the worker thread has ended, every task that was in the queue when
\* the main loop was stopped has been OCR'd and written to the frames table.
C13_QueueDrainedOnStop ==
    worker = "stopped" => \A id \in at_stop : id \in DOMAIN db.frames

\* The same program under the scheduler's guarantees: the main thread and the
\* worker thread both keep running, so a step either of them can take is
\* taken in the end (a get on an empty queue times out after a second).
SpecIngestLive ==
    /\ SpecIngest
    /\ WF_vars(IQueueJoin) /\ WF_vars(IExit) /\ WF_vars(WCheck) /\ WF_vars(WGet)

\* C28: once stop is requested (the running flag is cleared), whatever the
\* queue holds and whatever the worker's tasks do, the wait on the queue
\* returns and the process reaches its exit.
C28_ShutdownTerminates == (main = "cleared") ~> (main = "exited")

----------------------------------------------------------------------------
(* Stop specification: run_continuous on its thread, stop() called once from *)
(* another thread at any point.  The manager's lock makes get_screen_writer  *)
(* and close_all atomic, the writer's lock makes write_frame and close       *)
(* atomic; a tick is split where it holds neither.  The captures have no     *)
(* windows.                                                                  *)

InitStop ==
    /\ IdleIngest
    /\ IdleQuery
    /\ IdleCache
    /\ IdleStop
    /\ config \in RecordingConfigs
    /\ NewCoordinator
    /\ simple = SimpleFrameFilter(6)
    /\ seen = {}
    /\ dlast = [k \in StreamKinds |-> NoDecision]
    /\ nchecks = 0
    /\ now = 0 /\ procs = <<>>
    /\ IdleWriter
    /\ IdleLance
    /\ IdleLater

\* run_continuous is entered: self._is_running = True
TStart ==
    /\ run = "idle"
    /\ run' = "loop"
    /\ is_running' = TRUE
    /\ UNCHANGED <<kvars, ivars, qvars, cvars, held, stopper, shared, wvars, dvars, lvars,
                   config, vm, db, stats, generated, hist, iteration, faulted>>

\* the loop test passes and a tick begins: the capture, process_capture steps
\* 1 and 2 and, for a frame to store, get_screen_writer, which creates and
\* registers the writer of the monitor on first use
TBegin ==
    /\ run = "loop" /\ is_running /\ iteration < MaxTicks
    /\ stopper' = [stopper EXCEPT !.ticks_after = IF stopper.called THEN @ + 1 ELSE @]
    /\ \E img \in ScreenImages :
        LET so == ScreenObject(config, now, img, <<>>)
            S == TrackWindows(Session, so,
                     CheckScreenDiff(det, so.monitor_id, so.full_screen_image,
                                     so.full_screen_hash))
            writer == GetScreenWriter(S.vm, so.monitor_id, config.ffmpeg)
        IN  IF S.screen_diff_result.should_store
            THEN /\ Adopt([S EXCEPT !.vm.screen_writers = Put(@, so.monitor_id, writer)])
                 /\ held' = [valid |-> TRUE, writer |-> writer, so |-> so]
                 /\ run' = "write"
                 /\ UNCHANGED <<kvars, iteration, now>>
            ELSE /\ Adopt(S)
                 /\ iteration' = iteration + 1
                 /\ now' = now + 1
                 /\ UNCHANGED <<kvars, held, run>>
    /\ UNCHANGED <<kvars, ivars, qvars, cvars, wvars, simple, seen, dlast, nchecks, lvars,
                   config, is_running, faulted>>

\* the tick goes on: writer.write_frame on the writer it holds, the rest of
\* write_screen_frame and of process_capture, the end of the loop body.  The
\* writer is the manager's only while the manager still has it under its key.
TWrite ==
    /\ run = "write"
    /\ \E fault \in {"none", "screen_spawn", "screen_pipe", "screen_write",
                     "video_chunk_insert", "frame_store"} :
        LET key == held.so.monitor_id
            r == WriteFrame(held.writer, procs, now,
                            WriteOutcome(fault, "screen_spawn", "screen_pipe",
                                         "screen_write"))
            wr == ManagerWrite(vm, db, config, "screen", key, held.writer.identifier,
                               fault # "video_chunk_insert", r)
            kept == IF key \in DOMAIN vm.screen_writers THEN wr.vm ELSE vm
        IN  /\ fault # "none" => ~faulted
            /\ faulted' = (faulted \/ fault # "none")
            /\ Adopt(CreateMappings(
                         AfterScreenWrite(Session, config, held.so, fault,
                                          [wr EXCEPT !.vm = kept]),
                         fault))
    /\ held' = [valid |-> FALSE]
    /\ run' = "loop"
    /\ iteration' = iteration + 1
    /\ now' = now + 1
    /\ UNCHANGED <<kvars, ivars, qvars, cvars, stopper, wvars, simple, seen, dlast, nchecks, lvars,
                   config, is_running>>

\* the loop test fails, or max_iterations is reached; the finally clause:
\* self._is_running = False; self.stop()
TReturn ==
    /\ run = "loop" /\ (~is_running \/ iteration >= MaxTicks)
    /\ run' = "returned"
    /\ is_running' = FALSE
    /\ LET r == CloseAll(vm, procs)
       IN  vm' = r.vm /\ procs' = r.procs
    /\ UNCHANGED <<kvars, ivars, qvars, cvars, held, stopper, now, wvars, dvars, lvars,
                   config, db, stats, generated, hist, iteration, faulted>>

\* stop() on another thread while run_continuous is running: the flag, then
\* close_all, which closes every writer the manager has, the one a tick holds
\* among them, and clears both maps
XStop ==
    /\ run \in {"loop", "write"} /\ ~stopper.called
    /\ stopper' = [stopper EXCEPT !.called = TRUE]
    /\ is_running' = FALSE
    /\ LET r == CloseAll(vm, procs)
       IN  vm' = r.vm /\ procs' = r.procs
    /\ held' = IF held.valid THEN [held EXCEPT !.writer.ffmpeg_process = NoProc]
               ELSE held
    /\ UNCHANGED <<kvars, ivars, qvars, cvars, run, now, wvars, dvars, lvars,
                   config, db, stats, generated, hist, iteration, faulted>>

NextStop == TStart \/ TBegin \/ TWrite \/ TReturn \/ XStop

SpecStop == InitStop /\ [][NextStop]_vars

\* C14: once stop() has set the flag no further tick is begun, and when
\* run_continuous has returned every FFmpeg process the session spawned is
\* closed and the manager's two writer maps are empty, also when stop() ran
\* on another thread in the middle of a tick.
C14_AllWritersClosedOnReturn ==
    /\ stopper.ticks_after = 0
    /\ run = "returned" =>
          /\ \A p \in DOMAIN procs : ~procs[p].open
          /\ vm.screen_writers = <<>>
          /\ vm.window_writers = <<>>

----------------------------------------------------------------------------
(* Query specification: one query through rewrite_and_time and _vector_rag,  *)
(* any LLM answer, any result lists, the two searches ending in either order *)
(* and either of them failing.                                               *)

MaxResults == 2

\* what the LLM call can do
Responses ==
    {[kind |-> k] : k \in {"exception", "empty", "text"}}
    \cup {[kind |-> "json", value |-> [type |-> t]] :
             t \in {"null", "number", "bool", "string", "list"}}
    \cup {[kind |-> "json",
           value |-> [type |-> "dict", dense_queries |-> d, sparse_queries |-> sp,
                      time_range |-> tr]] :
            d \in {[tag |-> "absent"], [tag |-> "list", items |-> <<"q1", "q2">>]},
            sp \in {[tag |-> "scalar"], [tag |-> "list", items |-> <<>>],
                    [tag |-> "list", items |-> <<"k1">>]},
            tr \in {[tag |-> "absent"], [tag |-> "string"],
                    [tag |-> "dict", start |-> 2, end |-> 1],
                    [tag |-> "dict", start |-> 1, end |-> 0],
                    [tag |-> "dict", start |-> -1, end |-> 2]}}

\* the result lists a search can return: frame_ids, repeated where several
\* queries find the same frame
ResultLists == UNION {[1..n -> FrameIds] : n \in 0..MaxResults}

Tagged(ids, from_sparse) ==
    [i \in DOMAIN ids |-> [frame_id |-> ids[i], from_sparse |-> from_sparse]]

InitQuery ==
    /\ IdleIngest
    /\ IdleStop
    /\ IdleCache
    /\ rw = [valid |-> FALSE]
    /\ plan = [pc |-> "start"]
    /\ now = 0 /\ procs = <<>>
    /\ IdleWriter
    /\ IdleDetector
    /\ IdleLance
    /\ IdleCoordinator
    /\ IdleLater

\* rewrite_and_time is called (ENABLE_LLM_REWRITE or ENABLE_TIME_FILTER), then
\* the searches are submitted: both with ENABLE_HYBRID, the dense one alone
\* without
QRewrite ==
    /\ plan.pc = "start"
    /\ \E enable_rewrite \in BOOLEAN, enable_time \in BOOLEAN, resp \in Responses,
          hybrid \in BOOLEAN :
        LET r == RewriteAndTime("q", enable_rewrite, enable_time, resp)
        IN  /\ (~enable_rewrite /\ ~enable_time) => resp.kind = "exception"
            /\ rw' = [valid |-> TRUE, query |-> "q", enable_rewrite |-> enable_rewrite,
                      enable_time |-> enable_time, resp |-> resp, result |-> r]
            /\ plan' = [pc |-> IF r.raised THEN "raised" ELSE "searching",
                        hybrid |-> hybrid,
                        dense |-> [state |-> "pending", results |-> <<>>],
                        sparse |-> [state |-> IF hybrid THEN "pending" ELSE "off",
                                    results |-> <<>>],
                        first |-> "none", frames |-> <<>>]
    /\ UNCHANGED <<kvars, ivars, svars, cvars, shared, wvars, dvars, lvars, rvars>>

\* _dense_search_task ends: with its results, or raising (nothing in it
\* catches)
QDense ==
    /\ plan.pc = "searching" /\ plan.dense.state = "pending"
    /\ \E ids \in ResultLists, ok \in BOOLEAN :
        /\ ~ok => ids = <<>>
        /\ plan' = [plan EXCEPT
                      !.dense = [state |-> IF ok THEN "done" ELSE "failed",
                                 results |-> Tagged(ids, FALSE)],
                      !.first = IF @ = "none" THEN "dense" ELSE @]
    /\ UNCHANGED <<kvars, ivars, svars, cvars, rw, shared, wvars, dvars, lvars, rvars>>

\* _sparse_search_task ends: with its results, or with [] after catching its
\* own exception
QSparse ==
    /\ plan.pc = "searching" /\ plan.sparse.state = "pending"
    /\ \E ids \in ResultLists, ok \in BOOLEAN :
        /\ ~ok => ids = <<>>
        /\ plan' = [plan EXCEPT
                      !.sparse = [state |-> IF ok THEN "done" ELSE "failed",
                                  results |-> Tagged(ids, TRUE)],
                      !.first = IF @ = "none" THEN "sparse" ELSE @]
    /\ UNCHANGED <<kvars, ivars, svars, cvars, rw, shared, wvars, dvars, lvars, rvars>>

\* asyncio.gather returns once both tasks have ended, or re-raises at once
\* what a task raised; then the merge
QMerge ==
    /\ plan.pc = "searching"
    /\ \/ plan.dense.state = "failed"
       \/ plan.dense.state # "pending" /\ plan.sparse.state # "pending"
    /\ plan' = IF plan.dense.state = "failed"
               THEN [plan EXCEPT !.pc = "raised"]
               ELSE [plan EXCEPT !.pc = "merged",
                                 !.frames = MergeResults(plan.dense.results,
                                                         plan.sparse.results)]
    /\ UNCHANGED <<kvars, ivars, svars, cvars, rw, shared, wvars, dvars, lvars, rvars>>

NextQuery == QRewrite \/ QDense \/ QSparse \/ QMerge

SpecQuery == InitQuery /\ [][NextQuery]_vars

IdsOf(results) == {results[i].frame_id : i \in DOMAIN results}

\* where a frame_id is first found in a result list
FirstAt(results, id) ==
    CHOOSE i \in DOMAIN results :
        results[i].frame_id = id /\ \A j \in 1..(i - 1) : results[j].frame_id # id

\* C15: the merged list of a hybrid query holds each frame_id once, holds
\* exactly the frame_ids the two searches returned, has every dense result
\* before every result only the sparse search found, and keeps each search's
\* own order; it is made only when both searches have ended and is the same
\* whichever ended first.
C15_MergeDedupDenseFirst ==
    plan.pc = "merged" =>
        LET f == plan.frames
            d == plan.dense.results
            sp == plan.sparse.results
        IN  /\ plan.dense.state # "pending" /\ plan.sparse.state # "pending"
            /\ \A i, j \in DOMAIN f : f[i].frame_id = f[j].frame_id => i = j
            /\ IdsOf(f) = IdsOf(d) \cup IdsOf(sp)
            /\ \A i \in DOMAIN f : f[i].from_sparse <=> f[i].frame_id \notin IdsOf(d)
            /\ \A i, j \in DOMAIN f :
                  /\ (~f[i].from_sparse /\ f[j].from_sparse) => i < j
                  /\ (i < j /\ ~f[i].from_sparse /\ ~f[j].from_sparse) =>
                        FirstAt(d, f[i].frame_id) < FirstAt(d, f[j].frame_id)
                  /\ (i < j /\ f[i].from_sparse /\ f[j].from_sparse) =>
                        FirstAt(sp, f[i].frame_id) < FirstAt(sp, f[j].frame_id)

\* the sparse search ended first; the two searches share a frame and the dense
\* one found it twice
C15_Witness ==
    /\ plan.pc = "merged" /\ plan.first = "sparse"
    /\ Len(plan.dense.results) = 2 /\ Len(plan.sparse.results) = 2
    /\ plan.dense.results[1].frame_id = plan.dense.results[2].frame_id
    /\ IdsOf(plan.sparse.results) = FrameIds
    /\ Len(plan.frames) = 2

\* C16: when exactly one of the two searches of a hybrid query fails, the
\* planner does not raise: it merges and returns the results of the other
\* search, the failed one counting as empty.
C16_OneBranchFailureTolerated ==
    (/\ plan.pc \in {"merged", "raised"}
     /\ plan.hybrid
     /\ (plan.dense.state = "failed") # (plan.sparse.state = "failed")) =>
        /\ plan.pc = "merged"
        /\ IdsOf(plan.frames) = IdsOf(plan.dense.results) \cup IdsOf(plan.sparse.results)

\* C17: rewrite_and_time does not raise; it returns non-empty dense and sparse
\* query lists, and ([query], [query], None) whenever the LLM call raised or
\* its answer was empty, not JSON, or JSON that is not an object.
C17_RewriteNeverRaises ==
    rw.valid =>
        /\ ~rw.result.raised
        /\ rw.result.dense_queries # <<>>
        /\ rw.result.sparse_queries # <<>>
        /\ (rw.resp.kind # "json" \/ rw.resp.value.type # "dict") =>
              /\ rw.result.dense_queries = <<rw.query>>
              /\ rw.result.sparse_queries = <<rw.query>>
              /\ rw.result.time_range = NoRange

----------------------------------------------------------------------------
(* Cache specification: SimpleStorage receives frames, FrameCache.update is  *)
(* called at any time between two of them.                                   *)

MaxStored == 4
MaxUpdates == 2

InitCache ==
    /\ IdleIngest
    /\ IdleStop
    /\ IdleQuery
    /\ now = 0 /\ procs = <<>>
    /\ IdleWriter
    /\ IdleDetector
    /\ IdleLance
    /\ IdleCoordinator
    /\ \E max_size \in {1, 2} : frame_cache = FrameCache(max_size, 3)
    /\ storage = <<>>
    /\ updated = [count |-> 0, stored |-> 0]
    /\ IdleLater

\* the capture side stores one more frame, newer than those stored before
CStoreFrame ==
    /\ Len(storage) < MaxStored
    /\ \E img \in {NoImage} \cup Images :
        storage' = Append(storage, [frame_id |-> Len(storage) + 1,
                                    timestamp |-> Len(storage) + 1, image |-> img])
    /\ UNCHANGED <<kvars, ivars, svars, qvars, frame_cache, updated,
                   shared, wvars, dvars, lvars, rvars>>

\* frame_cache.update(storage)
CUpdate ==
    /\ updated.count < MaxUpdates
    /\ frame_cache' = UpdateCache(frame_cache, storage)
    /\ updated' = [count |-> updated.count + 1, stored |-> Len(storage)]
    /\ UNCHANGED <<kvars, ivars, svars, qvars, storage, shared, wvars, dvars, lvars, rvars>>

NextCache == CStoreFrame \/ CUpdate

SpecCache == InitCache /\ [][NextCache]_vars

\* C18: after any sequence of update() calls on any storage contents, the
\* first call on a store of more than max_size distinct frames included, the
\* cache holds at most max_size frames.
C18_CacheAtMostMaxSize ==
    Len(frame_cache.cached_frames) <= frame_cache.max_size

\* the first update, with max_size 2, on a store of four frames that each
\* differ from the one before
C18_Witness ==
    /\ frame_cache.max_size = 2 /\ updated.count = 1 /\ updated.stored = 4
    /\ \A i \in 1..3 :
          /\ storage[i].image # NoImage /\ storage[i + 1].image # NoImage
          /\ NormalizedRmsDiff(storage[i].image, storage[i + 1].image) > 3
    /\ Len(frame_cache.cached_frames) = 2

\* C19: when update() has returned, the cache holds the most recent accepted
\* frames of the store: no frame that was stored at the time of the call, is
\* newer than the newest cached frame and differs from it by more than the
\* threshold has been left out, on the first update as on later ones.
C19_CacheHoldsMostRecent ==
    (updated.count > 0 /\ frame_cache.cached_frames # <<>>) =>
        LET newest == frame_cache.cached_frames[Len(frame_cache.cached_frames)]
        IN  \A i \in 1..updated.stored :
                (storage[i].timestamp > newest.timestamp
                    /\ storage[i].image # NoImage) =>
                   NormalizedRmsDiff(newest.image, storage[i].image)
                       <= frame_cache.diff_threshold

----------------------------------------------------------------------------
(* REPL specification: the query loop of cli_main receives start, stop and   *)
(* quit commands in any order.  _record_thread is the index of the thread    *)
(* the module global refers to (0 for None); threads are the recording       *)
(* threads started so far.                                                   *)

MaxCommands == 4    \* start / stop / quit commands typed

InitRepl ==
    /\ IdleIngest
    /\ IdleStop
    /\ IdleQuery
    /\ IdleCache
    /\ calls = NoCalls
    /\ repl = NoRecording
    /\ now = 0
    /\ procs = <<>>
    /\ IdleWriter
    /\ IdleDetector
    /\ IdleLance
    /\ IdleCoordinator

\* _record_thread and _record_thread.is_alive()
Recording(r) == r.record_thread # 0 /\ r.threads[r.record_thread].alive

\* _start_recording: nothing while the thread is alive; else a RecordWorker
\* and a daemon thread are created and the thread started, and when that
\* raises both globals are None
StartRecording(r, out) ==
    IF Recording(r) THEN r
    ELSE IF out = "raise" THEN [r EXCEPT !.record_thread = 0]
    ELSE [r EXCEPT !.record_thread = Len(r.threads) + 1,
                   !.threads = Append(@, [alive |-> TRUE, stop_requested |-> FALSE])]

\* _stop_recording: nothing while no thread is alive; else stop_recording(),
\* join(timeout=5) and, in the finally clause, both globals become None.
\* out: "joined" the thread ended within the timeout, "timeout" it did not,
\* "raise" stop_recording raised before the join.
StopRecording(r, out) ==
    IF ~Recording(r) THEN r
    ELSE LET t == r.record_thread
         IN  [r EXCEPT !.record_thread = 0,
                       !.threads[t].stop_requested = (out # "raise"),
                       !.threads[t].alive = (out # "joined")]

\* the command "start"
PStart ==
    /\ ~repl.quit
    /\ repl.commands < MaxCommands
    /\ \E out \in {"ok", "raise"} :
        repl' = [StartRecording(repl, out) EXCEPT !.commands = @ + 1]
    /\ UNCHANGED <<ivars, svars, qvars, cvars, calls, now, procs, wvars, dvars, lvars, rvars>>

\* the command "stop"
PStop ==
    /\ ~repl.quit
    /\ repl.commands < MaxCommands
    /\ \E out \in {"joined", "timeout", "raise"} :
        repl' = [StopRecording(repl, out) EXCEPT !.commands = @ + 1]
    /\ UNCHANGED <<ivars, svars, qvars, cvars, calls, now, procs, wvars, dvars, lvars, rvars>>

\* q, quit, exit or Ctrl-C: _stop_recording(), then the loop is left
PQuit ==
    /\ ~repl.quit
    /\ repl.commands < MaxCommands
    /\ \E out \in {"joined", "timeout", "raise"} :
        repl' = [StopRecording(repl, out) EXCEPT !.commands = @ + 1, !.quit = TRUE]
    /\ UNCHANGED <<ivars, svars, qvars, cvars, calls, now, procs, wvars, dvars, lvars, rvars>>

\* a recording thread's target returns: some time after stop_recording() was
\* called on its worker, or when recording fails
PThreadEnd(t) ==
    /\ repl.threads[t].alive
    /\ repl' = [repl EXCEPT !.threads[t].alive = FALSE]
    /\ UNCHANGED <<ivars, svars, qvars, cvars, calls, now, procs, wvars, dvars, lvars, rvars>>

NextRepl ==
    \/ PStart
    \/ PStop
    \/ PQuit
    \/ \E t \in DOMAIN repl.threads : PThreadEnd(t)

SpecRepl == InitRepl /\ [][NextRepl]_vars

AliveThreads == {t \in DOMAIN repl.threads : repl.threads[t].alive}

\* C30: under any sequence of start, stop and quit commands, at most one
\* recording thread is alive at a time, also when a recorder is started after
\* a stop whose join timed out.
C30_AtMostOneRecorder == Cardinality(AliveThreads) <= 1

====
